---- MODULE Spec2Model ----
(***************************************************************************)
(* Model of discord_sky.context.conversation: ConversationContextBuilder   *)
(* (history curation, repetition guard, character budget, tool-result      *)
(* aggregation) and ConversationContext.render_prompt.                     *)
(*                                                                         *)
(* Strings are sequences of one-character strings, so that len(),          *)
(* str.lower(), str.startswith() and the substring test `in` are computed  *)
(* and not assumed.                                                        *)
(***************************************************************************)
EXTENDS Integers, Sequences, FiniteSets, TLC

(***************************************************************************)
(* Bounds of the model.                                                    *)
(***************************************************************************)
\* settings.bot_context: the limit passed to channel.history()
MaxWindow == 3
\* largest settings.bot_message_limit tried (0 is accepted by Settings)
MaxMessageLimit == 2
\* largest number of registered tool providers
MaxProviders == 1

(***************************************************************************)
(* Strings.                                                                *)
(***************************************************************************)
\* Optional[int] None; Discord user ids are positive
None == 0

BLOCK_SEPARATOR == <<" ", "\n", " ">>

LowerChar(c) ==
    CASE c = "A" -> "a" [] c = "B" -> "b" [] c = "G" -> "g"
      [] c = "N" -> "n" [] c = "P" -> "p" [] OTHER -> c

\* str.lower()
Lower(s) == [i \in 1..Len(s) |-> LowerChar(s[i])]

\* str.startswith(p)
StartsWith(s, p) == Len(p) <= Len(s) /\ SubSeq(s, 1, Len(p)) = p

\* `needle in hay` for str
Contains(needle, hay) ==
    \E i \in 0..(Len(hay) - Len(needle)) : SubSeq(hay, i + 1, i + Len(needle)) = needle

RECURSIVE Join(_, _)
\* sep.join(parts)
Join(parts, sep) ==
    IF Len(parts) = 0 THEN <<>>
    ELSE IF Len(parts) = 1 THEN parts[1]
    ELSE parts[1] \o sep \o Join(Tail(parts), sep)

RECURSIVE Reverse(_)
\* list.reverse()
Reverse(s) == IF s = <<>> THEN <<>> ELSE Append(Reverse(Tail(s)), s[1])

(***************************************************************************)
(* Settings and the message source.                                        *)
(***************************************************************************)
bot_prefix == <<"!">>
chatgpt_prompt_prefix == <<"p">>
chatgpt_prompt_suffix == <<"s">>
bot_context == MaxWindow

\* values of history_character_limit given to the constructor
Limits == {9, 10, 40}

\* middle sections handed to build()
MiddleSections == {<<"m">>}

\* authors seen in the channel: a person, the bot itself, another bot
SelfId == 2
Al == [id |-> 1, name |-> <<"a", "l">>, bot |-> FALSE]
Sky == [id |-> SelfId, name |-> <<"s", "k", "y">>, bot |-> TRUE]
Bb == [id |-> 3, name |-> <<"b", "b">>, bot |-> TRUE]

Long == <<"a", "a", "a", "a", "a">>
LongUpper == <<"A", "a", "a", "a", "a">>
Short == <<"a", "a">>
Command == <<"!", "a", "a">>
LongLine == <<"a", "a", "a", "a", "a", "\n">>
CommandEcho == <<"!", "A", "A", "A", "A", "A", "\n">>

\* the messages channel.history() may yield
Messages ==
    { [author |-> Al, content |-> LongUpper],
      [author |-> Al, content |-> Short],
      [author |-> Al, content |-> Command],
      [author |-> Sky, content |-> LongLine],
      [author |-> Sky, content |-> CommandEcho],
      [author |-> Sky, content |-> Long],
      [author |-> Bb, content |-> LongUpper] }

\* a tool provider: the sequence of ToolResult its gather() returns, or
\* that its gather() raises
SearchResult == [name |-> <<"s">>, content |-> <<"x">>]
DocResult == [name |-> <<"d">>, content |-> <<"y">>]
Search == [results |-> <<SearchResult>>, raises |-> FALSE]
Docs == [results |-> <<DocResult, SearchResult>>, raises |-> FALSE]
Silent == [results |-> <<>>, raises |-> FALSE]
Failing == [results |-> <<>>, raises |-> TRUE]
Providers == { Search }

\* the inbound messages handed to build()
InboundMessages == { "m1" }
NoMessage == ""

(***************************************************************************)
(* State.                                                                  *)
(***************************************************************************)
VARIABLES
    history_character_limit,  \* builder._history_character_limit
    bot_message_limit,        \* settings.bot_message_limit
    bot_user_id,              \* builder._bot_user_id
    tool_providers,           \* builder._tool_providers
    pc,                       \* position of the respond()/build() coroutine
    window,                   \* messages yielded so far by channel.history(), newest first
    classified,               \* per yielded message, how lines 115-120 treated it
    middle_section,           \* argument of build()
    history_messages,         \* local of _collect_history
    bot_messages_content,     \* local of _collect_history
    bot_message_counts,       \* local of _collect_history
    ignored_contents,         \* local of _collect_history
    character_budget,         \* local of _collect_history
    history_src,              \* per curated entry, its position in window
    gathered,                 \* local of _gather_tool_results
    next_provider,            \* index of the provider whose gather() is awaited
    context,                  \* the ConversationContext returned by build()
    build_message,            \* argument of build(): the inbound message
    calls,                    \* the gather() invocations of this build, in order
    prompt,                   \* local of respond()
    completions,              \* the prompts this respond() passed to complete()
    reply,                    \* what respond() returned
    outcome,                  \* how the awaited complete() ended
    plugins,                  \* agent._plugins
    closed,                   \* agent._closed
    apc,                      \* position of the agent's _on_message or close() coroutine
    cursor,                   \* the loop index over _plugins and the plugin whose hook is awaited
    dispatched,               \* the message _on_message dispatches and how its collaborators behave
    log,                      \* the calls made for this message and by close(), in order
    suspended                 \* the locals of a second, suspended pass

vars == << history_character_limit, bot_message_limit, bot_user_id, tool_providers,
           pc, window, classified, middle_section, history_messages,
           bot_messages_content, bot_message_counts, ignored_contents,
           character_budget, history_src, gathered, next_provider, context,
           build_message, calls, prompt, completions, reply, outcome, suspended,
           plugins, closed, apc, cursor, dispatched, log >>

settings_vars == << history_character_limit, bot_message_limit >>

collect_vars == << window, classified, middle_section, history_messages,
                   bot_messages_content, bot_message_counts >>

walk_vars == << ignored_contents, character_budget, history_src >>

respond_vars == << prompt, completions, reply, outcome >>

agent_vars == << plugins, closed, apc, cursor, dispatched, log >>

NoContext == [prompt_prefix |-> <<>>, middle_section |-> <<>>, prompt_suffix |-> <<>>,
              history |-> <<>>, tool_results |-> <<>>]

EmptyCounts == [c \in {} |-> 0]

\* complete() has not ended
NoOutcome == [kind |-> "none", status |-> 0, content |-> <<>>]

\* the locals of a pass that has not started
IdlePass ==
    [pc |-> "idle", window |-> <<>>, classified |-> <<>>, middle_section |-> <<>>,
     history_messages |-> <<>>, bot_messages_content |-> <<>>,
     bot_message_counts |-> EmptyCounts, ignored_contents |-> {},
     character_budget |-> 0, history_src |-> <<>>, gathered |-> <<>>,
     next_provider |-> 0, context |-> NoContext, message |-> NoMessage,
     calls |-> <<>>, prompt |-> <<>>, completions |-> <<>>, reply |-> <<>>,
     outcome |-> NoOutcome]

\* the locals of the running pass
ActivePass ==
    [pc |-> pc, window |-> window, classified |-> classified,
     middle_section |-> middle_section, history_messages |-> history_messages,
     bot_messages_content |-> bot_messages_content,
     bot_message_counts |-> bot_message_counts, ignored_contents |-> ignored_contents,
     character_budget |-> character_budget, history_src |-> history_src,
     gathered |-> gathered, next_provider |-> next_provider, context |-> context,
     message |-> build_message, calls |-> calls, prompt |-> prompt,
     completions |-> completions, reply |-> reply, outcome |-> outcome]


(***************************************************************************)
(* ConversationContext.render_prompt                                       *)
(***************************************************************************)
HistoryLine(entry) == entry.author \o <<":", " ">> \o entry.content

ToolLine(result) ==
    <<"[", "T", "o", "o", "l", ":">> \o result.name \o <<"]", " ">> \o result.content

\* render_prompt without the `if self.tool_results` test: a tool block always
render_prompt_AlwaysToolBlock(ctx) ==
    LET base_prompt == ctx.prompt_prefix \o ctx.middle_section \o ctx.prompt_suffix
        history_text ==
            Join([i \in 1..Len(ctx.history) |-> HistoryLine(ctx.history[i])], BLOCK_SEPARATOR)
        tool_text ==
            Join([i \in 1..Len(ctx.tool_results) |-> ToolLine(ctx.tool_results[i])],
                 BLOCK_SEPARATOR)
        segments ==
            (IF ctx.history # <<>> THEN <<history_text>> ELSE <<>>) \o <<tool_text>>
    IN  base_prompt \o BLOCK_SEPARATOR \o Join(segments, BLOCK_SEPARATOR)

\* render_prompt with the tool block ahead of the history block
render_prompt_ToolsFirst(ctx) ==
    LET base_prompt == ctx.prompt_prefix \o ctx.middle_section \o ctx.prompt_suffix
        history_text ==
            Join([i \in 1..Len(ctx.history) |-> HistoryLine(ctx.history[i])], BLOCK_SEPARATOR)
        tool_text ==
            Join([i \in 1..Len(ctx.tool_results) |-> ToolLine(ctx.tool_results[i])],
                 BLOCK_SEPARATOR)
        segments ==
            (IF ctx.tool_results # <<>> THEN <<tool_text>> ELSE <<>>)
            \o (IF ctx.history # <<>> THEN <<history_text>> ELSE <<>>)
    IN  IF segments = <<>> THEN base_prompt
        ELSE base_prompt \o BLOCK_SEPARATOR \o Join(segments, BLOCK_SEPARATOR)

render_prompt(ctx) ==
    LET base_prompt == ctx.prompt_prefix \o ctx.middle_section \o ctx.prompt_suffix
        history_text ==
            Join([i \in 1..Len(ctx.history) |-> HistoryLine(ctx.history[i])], BLOCK_SEPARATOR)
        tool_text ==
            Join([i \in 1..Len(ctx.tool_results) |-> ToolLine(ctx.tool_results[i])],
                 BLOCK_SEPARATOR)
        segments ==
            (IF ctx.history # <<>> THEN <<history_text>> ELSE <<>>)
            \o (IF ctx.tool_results # <<>> THEN <<tool_text>> ELSE <<>>)
    IN  IF segments = <<>> THEN base_prompt
        ELSE base_prompt \o BLOCK_SEPARATOR \o Join(segments, BLOCK_SEPARATOR)

(***************************************************************************)
(* ConversationContextBuilder._is_from_bot                                 *)
(***************************************************************************)
\* _is_from_bot that keeps looking at the bot flag once an identity is bound
_is_from_bot_FlagOrId(message, uid) ==
    message.author.bot \/ (uid # None /\ message.author.id = uid)

_is_from_bot(message, uid) ==
    IF uid = None THEN message.author.bot
    ELSE message.author.id = uid

(***************************************************************************)
(* _collect_history, lines 114-121: what the loop body does with a message *)
(***************************************************************************)
\* the loop body with the prefix test ahead of the _is_from_bot test
Classify_PrefixFirst(past_message, uid) ==
    IF StartsWith(past_message.content, bot_prefix) THEN "command"
    ELSE IF _is_from_bot(past_message, uid) THEN "bot"
    ELSE "human"

Classify(past_message, uid) ==
    IF _is_from_bot(past_message, uid) THEN "bot"
    ELSE IF StartsWith(past_message.content, bot_prefix) THEN "command"
    ELSE "human"

(***************************************************************************)
(* _collect_history, lines 123-129: the repetition counts                  *)
(***************************************************************************)
RECURSIVE CountBotMessages(_, _)
\* the inner loop: how often the count of one human message is incremented
CountBotMessages(content_lower, bots) ==
    IF bots = <<>> THEN 0
    ELSE (IF Contains(content_lower \o <<"\n">>, Lower(bots[1])) THEN 1 ELSE 0)
         + CountBotMessages(content_lower, Tail(bots))

RECURSIVE CountRepetitions_NoExemption(_, _, _)
\* the outer loop without the `len(content_lower) < 5` test
CountRepetitions_NoExemption(humans, bots, counts) ==
    IF humans = <<>> THEN counts
    ELSE LET content == humans[1].content
             content_lower == Lower(content)
         IN  CountRepetitions_NoExemption(Tail(humans), bots,
                 [counts EXCEPT ![content] = @ + CountBotMessages(content_lower, bots)])

RECURSIVE CountRepetitions(_, _, _)
\* the outer loop over history_messages
CountRepetitions(humans, bots, counts) ==
    IF humans = <<>> THEN counts
    ELSE LET content == humans[1].content
             content_lower == Lower(content)
         IN  IF Len(content_lower) < 5
             THEN CountRepetitions(Tail(humans), bots, counts)
             ELSE CountRepetitions(Tail(humans), bots,
                      [counts EXCEPT ![content] = @ + CountBotMessages(content_lower, bots)])

\* lines 131-135 with `count > limit`
IgnoredContents_Strict(counts, limit) ==
    { content_text \in DOMAIN counts : counts[content_text] > limit }

\* lines 131-135
IgnoredContents(counts, limit) ==
    { content_text \in DOMAIN counts : counts[content_text] >= limit }

(***************************************************************************)
(* _collect_history, lines 137-147: the walk under the character budget    *)
(***************************************************************************)
\* line 144 with two more characters counted per entry
EntryCost_PlusFour(entry) == Len(entry.author) + Len(entry.content) + 4

\* line 144: what one appended candidate adds to character_budget
EntryCost(entry) == Len(entry.author) + Len(entry.content) + 2

\* line 145 with `>=`
OverBudget_NonStrict(budget, limit) == budget >= limit

\* line 145
OverBudget(budget, limit) == budget > limit

RECURSIVE WalkHistory_SkipOversized(_, _, _, _)
\* the walk with `continue` in place of `break`: best-fit packing
WalkHistory_SkipOversized(humans, ignored, limit, acc) ==
    IF humans = <<>> THEN acc
    ELSE LET past_message == humans[1]
             content == past_message.content
         IN  IF content \in ignored
             THEN WalkHistory_SkipOversized(Tail(humans), ignored, limit, acc)
             ELSE LET entry == [author |-> past_message.author.name, content |-> content]
                      budget == acc.character_budget + EntryCost(entry)
                  IN  IF OverBudget(budget, limit)
                      THEN WalkHistory_SkipOversized(Tail(humans), ignored, limit, acc)
                      ELSE WalkHistory_SkipOversized(Tail(humans), ignored, limit,
                               [final_history |-> Append(acc.final_history, entry),
                                src |-> Append(acc.src, past_message.idx),
                                character_budget |-> budget])

RECURSIVE WalkHistory_KeepsOverflowing(_, _, _, _)
\* the walk with the budget test after the append: the overflowing entry is kept
WalkHistory_KeepsOverflowing(humans, ignored, limit, acc) ==
    IF humans = <<>> THEN acc
    ELSE LET past_message == humans[1]
             content == past_message.content
         IN  IF content \in ignored
             THEN WalkHistory_KeepsOverflowing(Tail(humans), ignored, limit, acc)
             ELSE LET entry == [author |-> past_message.author.name, content |-> content]
                      budget == acc.character_budget + EntryCost(entry)
                      kept == [final_history |-> Append(acc.final_history, entry),
                               src |-> Append(acc.src, past_message.idx),
                               character_budget |-> budget]
                  IN  IF OverBudget(budget, limit) THEN kept
                      ELSE WalkHistory_KeepsOverflowing(Tail(humans), ignored, limit, kept)

RECURSIVE WalkHistory(_, _, _, _)
\* acc = [final_history, src, character_budget]
WalkHistory(humans, ignored, limit, acc) ==
    IF humans = <<>> THEN acc
    ELSE LET past_message == humans[1]
             content == past_message.content
         IN  IF content \in ignored
             THEN WalkHistory(Tail(humans), ignored, limit, acc)
             ELSE LET entry == [author |-> past_message.author.name, content |-> content]
                      budget == acc.character_budget + EntryCost(entry)
                  IN  IF OverBudget(budget, limit)
                      THEN [acc EXCEPT !.character_budget = budget]
                      ELSE WalkHistory(Tail(humans), ignored, limit,
                               [final_history |-> Append(acc.final_history, entry),
                                src |-> Append(acc.src, past_message.idx),
                                character_budget |-> budget])

\* line 149 left out
FinalOrder_Unreversed(final_history) == final_history

\* line 149
FinalOrder(final_history) == Reverse(final_history)

(***************************************************************************)
(* _collect_history, lines 121 and 129: the keys of bot_message_counts     *)
(***************************************************************************)
\* line 121 left out
SetDefault_Missing(counts, content) == counts

\* line 121: bot_message_counts.setdefault(content, 0)
SetDefault(counts, content) ==
    [c \in DOMAIN counts \cup {content} |-> IF c \in DOMAIN counts THEN counts[c] ELSE 0]

\* line 129 raises KeyError: an increment is due for a content that is no key
KeyError(humans, bots, counts) ==
    \E k \in 1..Len(humans) :
        /\ Len(humans[k].content) >= 5
        /\ CountBotMessages(Lower(humans[k].content), bots) > 0
        /\ humans[k].content \notin DOMAIN counts

(***************************************************************************)
(* _gather_tool_results, line 158                                          *)
(***************************************************************************)
\* the results put in front of what was gathered
Extend_Prepend(gathered_so_far, results) == results \o gathered_so_far

\* gathered.extend(results)
Extend(gathered_so_far, results) == gathered_so_far \o results

(***************************************************************************)
(* ChatResponder.respond: the text returned when the backend fails         *)
(***************************************************************************)
Digit(d) ==
    CASE d = 0 -> "0" [] d = 1 -> "1" [] d = 2 -> "2" [] d = 3 -> "3" [] d = 4 -> "4"
      [] d = 5 -> "5" [] d = 6 -> "6" [] d = 7 -> "7" [] d = 8 -> "8" [] d = 9 -> "9"

RECURSIVE Str(_)
\* the f-string conversion of a non-negative int
Str(n) == IF n < 10 THEN << Digit(n) >> ELSE Append(Str(n \div 10), Digit(n % 10))

SorryHead ==
    << "S", "o", "r", "r", "y", ",", " ", "I", " ", "e", "n", "c", "o", "u",
      "n", "t", "e", "r", "e", "d", " ", "a", "n", " ", "e", "r", "r", "o",
      "r", " ", "(", "s", "t", "a", "t", "u", "s", " ", "c", "o", "d", "e",
      " " >>

SorryTail ==
    << ")", ".", " ", "P", "l", "e", "a", "s", "e", " ", "t", "r", "y", " ",
      "a", "g", "a", "i", "n", " ", "l", "a", "t", "e", "r", "." >>

\* the degraded text without the status
DegradedText_NoStatus(status) == SorryHead \o SorryTail

\* f"Sorry, I encountered an error (status code {exc.status}). Please try again later."
DegradedText(status) == SorryHead \o Str(status) \o SorryTail

\* statuses carried by the OpenAIChatError that complete() raises
ErrorStatuses == { 200, 429 }

\* contents complete() returns
CompletionTexts == { <<"o", "k">> }

(***************************************************************************)
(* Initial state: a constructed builder, no build() running.               *)
(***************************************************************************)
NoPlugin == [name |-> "", priority |-> 0, kind |-> "", allowed |-> {}, shutdown_raises |-> FALSE]

NoCursor == [index |-> 0, plugin |-> NoPlugin]

NoDispatch == [message |-> NoMessage, world |-> NoMessage]

NoPassRunning ==
    /\ pc = "idle"
    /\ window = <<>>
    /\ classified = <<>>
    /\ middle_section = <<>>
    /\ history_messages = <<>>
    /\ bot_messages_content = <<>>
    /\ bot_message_counts = EmptyCounts
    /\ ignored_contents = {}
    /\ character_budget = 0
    /\ history_src = <<>>
    /\ gathered = <<>>
    /\ next_provider = 0
    /\ context = NoContext
    /\ build_message = NoMessage
    /\ calls = <<>>
    /\ prompt = <<>>
    /\ completions = <<>>
    /\ reply = <<>>
    /\ outcome = NoOutcome
    /\ suspended = IdlePass
    /\ plugins = <<>>
    /\ closed = FALSE
    /\ apc = "idle"
    /\ cursor = NoCursor
    /\ dispatched = NoDispatch
    /\ log = <<>>

Init ==
    /\ history_character_limit \in Limits
    /\ bot_message_limit \in 0..MaxMessageLimit
    /\ bot_user_id = None
    /\ tool_providers = <<>>
    /\ NoPassRunning

(***************************************************************************)
(* Actions.                                                                *)
(***************************************************************************)
\* set_bot_user, called from on_ready with the id of the bot's own user
set_bot_user(user_id) ==
    /\ bot_user_id' = user_id
    /\ UNCHANGED << settings_vars, tool_providers, pc, collect_vars, walk_vars,
                    gathered, next_provider, context, build_message, calls,
                    respond_vars, suspended, agent_vars >>

\* add_tool_provider
add_tool_provider(provider) ==
    /\ tool_providers' = Append(tool_providers, provider)
    /\ UNCHANGED << settings_vars, bot_user_id, pc, collect_vars, walk_vars,
                    gathered, next_provider, context, build_message, calls,
                    respond_vars, suspended, agent_vars >>

\* respond() calls build(), and _collect_history runs up to the first read
\* of the history
BuildStart(inbound, middle) ==
    /\ pc \notin {"history", "gather", "complete"}
    /\ pc' = "history"
    /\ build_message' = inbound
    /\ middle_section' = middle
    /\ window' = <<>>
    /\ classified' = <<>>
    /\ history_messages' = <<>>
    /\ bot_messages_content' = <<>>
    /\ bot_message_counts' = EmptyCounts
    /\ ignored_contents' = {}
    /\ character_budget' = 0
    /\ history_src' = <<>>
    /\ gathered' = <<>>
    /\ next_provider' = 0
    /\ context' = NoContext
    /\ calls' = <<>>
    /\ prompt' = <<>>
    /\ completions' = <<>>
    /\ reply' = <<>>
    /\ outcome' = NoOutcome
    /\ UNCHANGED << settings_vars, bot_user_id, tool_providers, suspended, agent_vars >>

\* one iteration of `async for past_message in message.channel.history(...)`
HistoryNext(past_message) ==
    /\ pc = "history"
    /\ Len(window) < bot_context
    /\ window' = Append(window, past_message)
    /\ LET content == past_message.content
           kind == Classify(past_message, bot_user_id)
       IN  /\ classified' = Append(classified, kind)
           /\ IF kind = "bot"
              THEN /\ bot_messages_content' = Append(bot_messages_content, content)
                   /\ UNCHANGED << history_messages, bot_message_counts >>
              ELSE IF kind = "command"
              THEN UNCHANGED << history_messages, bot_messages_content, bot_message_counts >>
              ELSE /\ history_messages' =
                          Append(history_messages,
                                 [author |-> past_message.author, content |-> content,
                                  idx |-> Len(window) + 1])
                   /\ bot_message_counts' = SetDefault(bot_message_counts, content)
                   /\ UNCHANGED bot_messages_content
    /\ UNCHANGED << settings_vars, bot_user_id, tool_providers, pc, middle_section,
                    walk_vars, gathered, next_provider, context, build_message, calls,
                    respond_vars, suspended, agent_vars >>

\* the failure of the history read swallowed: the pass goes on to the providers
HistoryRaise_ThenGather ==
    /\ pc = "history"
    /\ tool_providers # <<>>
    /\ pc' = "gather"
    /\ next_provider' = 1
    /\ calls' = << [provider |-> 1, message |-> build_message] >>
    /\ UNCHANGED << settings_vars, bot_user_id, tool_providers, collect_vars, walk_vars,
                    gathered, context, build_message, respond_vars, suspended, agent_vars >>

\* the read of the history raises: build() and respond() propagate it
HistoryRaise ==
    /\ pc = "history"
    /\ pc' = "history_raised"
    /\ UNCHANGED << settings_vars, bot_user_id, tool_providers, collect_vars, walk_vars,
                    gathered, next_provider, context, build_message, calls,
                    respond_vars, suspended, agent_vars >>

\* the history is exhausted: the rest of _collect_history runs, then
\* _gather_tool_results up to the first provider's gather()
HistoryEnd ==
    /\ pc = "history"
    /\ IF KeyError(history_messages, bot_messages_content, bot_message_counts)
       THEN /\ pc' = "history_raised"
            /\ UNCHANGED << bot_message_counts, walk_vars, next_provider, context, calls >>
       ELSE
       LET base_prompt == chatgpt_prompt_prefix \o middle_section \o chatgpt_prompt_suffix
           counts == CountRepetitions(history_messages, bot_messages_content,
                                      bot_message_counts)
           ignored == IgnoredContents(counts, bot_message_limit)
           walked == WalkHistory(history_messages, ignored, history_character_limit,
                                 [final_history |-> <<>>, src |-> <<>>,
                                  character_budget |-> Len(base_prompt) + 1])
           history == FinalOrder(walked.final_history)
       IN  /\ bot_message_counts' = counts
           /\ ignored_contents' = ignored
           /\ character_budget' = walked.character_budget
           /\ history_src' = FinalOrder(walked.src)
           /\ IF tool_providers = <<>>
              THEN /\ pc' = "done"
                   /\ next_provider' = 0
                   /\ calls' = <<>>
                   /\ context' = [prompt_prefix |-> chatgpt_prompt_prefix,
                                  middle_section |-> middle_section,
                                  prompt_suffix |-> chatgpt_prompt_suffix,
                                  history |-> history,
                                  tool_results |-> <<>>]
              ELSE /\ pc' = "gather"
                   /\ next_provider' = 1
                   /\ calls' = << [provider |-> 1, message |-> build_message] >>
                   /\ context' = [NoContext EXCEPT !.history = history]
    /\ gathered' = <<>>
    /\ UNCHANGED << settings_vars, bot_user_id, tool_providers, window, classified,
                    middle_section, history_messages, bot_messages_content, build_message,
                    respond_vars, suspended, agent_vars >>

\* the awaited provider.gather(message) returns
GatherReturn ==
    /\ pc = "gather"
    /\ ~tool_providers[next_provider].raises
    /\ LET results == tool_providers[next_provider].results
           all == Extend(gathered, results)
       IN  /\ gathered' = all
           /\ IF next_provider < Len(tool_providers)
              THEN /\ next_provider' = next_provider + 1
                   /\ calls' = Append(calls, [provider |-> next_provider + 1,
                                              message |-> build_message])
                   /\ UNCHANGED << pc, context >>
              ELSE /\ next_provider' = 0
                   /\ pc' = "done"
                   /\ context' = [prompt_prefix |-> chatgpt_prompt_prefix,
                                  middle_section |-> middle_section,
                                  prompt_suffix |-> chatgpt_prompt_suffix,
                                  history |-> context.history,
                                  tool_results |-> all]
                   /\ UNCHANGED calls
    /\ UNCHANGED << settings_vars, bot_user_id, tool_providers, collect_vars, walk_vars,
                    build_message, respond_vars, suspended, agent_vars >>

\* the awaited provider.gather(message) raises: nothing catches it in
\* _gather_tool_results, build() or respond()
GatherRaise ==
    /\ pc = "gather"
    /\ tool_providers[next_provider].raises
    /\ pc' = "gather_raised"
    /\ UNCHANGED << settings_vars, bot_user_id, tool_providers, collect_vars, walk_vars,
                    gathered, next_provider, context, build_message, calls,
                    respond_vars, suspended, agent_vars >>

\* build() has returned: respond() renders the prompt and awaits complete(prompt)
Complete ==
    /\ pc = "done"
    /\ pc' = "complete"
    /\ prompt' = render_prompt(context)
    /\ completions' = Append(completions, render_prompt(context))
    /\ UNCHANGED << settings_vars, bot_user_id, tool_providers, collect_vars, walk_vars,
                    gathered, next_provider, context, build_message, calls, reply,
                    outcome, suspended, agent_vars >>

\* complete() returns a completion
CompleteReturn(content) ==
    /\ pc = "complete"
    /\ pc' = "responded"
    /\ reply' = content
    /\ outcome' = [kind |-> "returned", status |-> 0, content |-> content]
    /\ UNCHANGED << settings_vars, bot_user_id, tool_providers, collect_vars, walk_vars,
                    gathered, next_provider, context, build_message, calls, prompt,
                    completions, suspended, agent_vars >>

\* complete() raises OpenAIChatError(status, body)
CompleteRaise(status) ==
    /\ pc = "complete"
    /\ pc' = "responded"
    /\ reply' = DegradedText(status)
    /\ outcome' = [kind |-> "OpenAIChatError", status |-> status, content |-> <<>>]
    /\ UNCHANGED << settings_vars, bot_user_id, tool_providers, collect_vars, walk_vars,
                    gathered, next_provider, context, build_message, calls, prompt,
                    completions, suspended, agent_vars >>

\* complete() raises something else (aiohttp.ClientError, JSONDecodeError):
\* respond() propagates it
CompleteFail ==
    /\ pc = "complete"
    /\ pc' = "complete_raised"
    /\ outcome' = [kind |-> "error", status |-> 0, content |-> <<>>]
    /\ UNCHANGED << settings_vars, bot_user_id, tool_providers, collect_vars, walk_vars,
                    gathered, next_provider, context, build_message, calls, prompt,
                    completions, reply, suspended, agent_vars >>

\* the event loop resumes the other pass with the builder's
\* bot_messages_content in place of the pass's own
Switch_SharedBotContent ==
    /\ suspended' = ActivePass
    /\ pc' = suspended.pc
    /\ window' = suspended.window
    /\ classified' = suspended.classified
    /\ middle_section' = suspended.middle_section
    /\ history_messages' = suspended.history_messages
    /\ bot_messages_content' = bot_messages_content
    /\ bot_message_counts' = suspended.bot_message_counts
    /\ ignored_contents' = suspended.ignored_contents
    /\ character_budget' = suspended.character_budget
    /\ history_src' = suspended.history_src
    /\ gathered' = suspended.gathered
    /\ next_provider' = suspended.next_provider
    /\ context' = suspended.context
    /\ build_message' = suspended.message
    /\ calls' = suspended.calls
    /\ prompt' = suspended.prompt
    /\ completions' = suspended.completions
    /\ reply' = suspended.reply
    /\ outcome' = suspended.outcome
    /\ UNCHANGED << settings_vars, bot_user_id, tool_providers, agent_vars >>

\* the running pass is suspended at its await and the event loop resumes
\* the other pass: each coroutine keeps its own locals
Switch ==
    /\ suspended' = ActivePass
    /\ pc' = suspended.pc
    /\ window' = suspended.window
    /\ classified' = suspended.classified
    /\ middle_section' = suspended.middle_section
    /\ history_messages' = suspended.history_messages
    /\ bot_messages_content' = suspended.bot_messages_content
    /\ bot_message_counts' = suspended.bot_message_counts
    /\ ignored_contents' = suspended.ignored_contents
    /\ character_budget' = suspended.character_budget
    /\ history_src' = suspended.history_src
    /\ gathered' = suspended.gathered
    /\ next_provider' = suspended.next_provider
    /\ context' = suspended.context
    /\ build_message' = suspended.message
    /\ calls' = suspended.calls
    /\ prompt' = suspended.prompt
    /\ completions' = suspended.completions
    /\ reply' = suspended.reply
    /\ outcome' = suspended.outcome
    /\ UNCHANGED << settings_vars, bot_user_id, tool_providers, agent_vars >>

(***************************************************************************)
(* The builder alone: build() passes one after another.                    *)
(***************************************************************************)
Next ==
    \/ set_bot_user(SelfId)
    \/ \E provider \in Providers :
          Len(tool_providers) < MaxProviders /\ add_tool_provider(provider)
    \/ \E inbound \in InboundMessages, middle \in MiddleSections :
          BuildStart(inbound, middle)
    \/ \E past_message \in Messages : HistoryNext(past_message)
    \/ HistoryEnd
    \/ GatherReturn

Spec == Init /\ [][Next]_vars

(***************************************************************************)
(* A builder whose limit leaves room for the base prompt alone.            *)
(***************************************************************************)
InitBaseFits ==
    /\ Init
    /\ \A middle \in MiddleSections :
          Len(chatgpt_prompt_prefix \o middle \o chatgpt_prompt_suffix) + 1
              <= history_character_limit

SpecBaseFits == InitBaseFits /\ [][Next]_vars

(***************************************************************************)
(* respond() over a builder with several providers, some of them failing,  *)
(* a history source that may fail and a backend that may fail.             *)
(***************************************************************************)
\* largest number of registered tool providers in this specification
MaxAssemblyProviders == 2

AssemblyProviders == { Search, Docs, Silent, Failing }

AssemblyInbound == { "m1", "m2" }

AssemblyMessages ==
    { [author |-> Al, content |-> Short],
      [author |-> Sky, content |-> LongLine] }

InitAssembly ==
    /\ history_character_limit = 40
    /\ bot_message_limit = 1
    /\ bot_user_id = SelfId
    /\ tool_providers \in {<<>>} \cup { <<provider>> : provider \in AssemblyProviders }
    /\ NoPassRunning

NextAssembly ==
    \/ \E provider \in AssemblyProviders :
          Len(tool_providers) < MaxAssemblyProviders /\ add_tool_provider(provider)
    \/ \E inbound \in AssemblyInbound, middle \in MiddleSections :
          BuildStart(inbound, middle)
    \/ \E past_message \in AssemblyMessages : HistoryNext(past_message)
    \/ HistoryRaise
    \/ HistoryEnd
    \/ GatherReturn
    \/ GatherRaise
    \/ Complete
    \/ \E content \in CompletionTexts : CompleteReturn(content)
    \/ \E status \in ErrorStatuses : CompleteRaise(status)
    \/ CompleteFail

SpecAssembly == InitAssembly /\ [][NextAssembly]_vars

(***************************************************************************)
(* Two build() passes for distinct inbound messages on one builder,        *)
(* interleaved at their awaits.                                            *)
(***************************************************************************)
ConcurrentInbound == { "m1", "m2" }

ConcurrentMiddles == { <<"m">>, <<"m", "m">> }

ConcurrentMessages ==
    { [author |-> Al, content |-> LongUpper],
      [author |-> Sky, content |-> LongLine] }

InitConcurrent ==
    /\ history_character_limit \in {10, 40}
    /\ bot_message_limit = 1
    /\ bot_user_id = SelfId
    /\ tool_providers = << Search >>
    /\ NoPassRunning

NextConcurrent ==
    \/ \E inbound \in ConcurrentInbound, middle \in ConcurrentMiddles :
          inbound # suspended.message /\ BuildStart(inbound, middle)
    \/ \E past_message \in ConcurrentMessages : HistoryNext(past_message)
    \/ HistoryEnd
    \/ GatherReturn
    \/ Switch

SpecConcurrent == InitConcurrent /\ [][NextConcurrent]_vars


(***************************************************************************)
(* Vocabulary of the properties, stated on the window that was read.       *)
(***************************************************************************)
\* _collect_history has returned
Curated ==
    pc \in {"gather", "gather_raised", "done", "complete", "complete_raised", "responded"}

BaseLen == Len(chatgpt_prompt_prefix) + Len(middle_section) + Len(chatgpt_prompt_suffix)

RECURSIVE IndicesFrom(_, _)
\* the window positions >= i that hold a candidate, newest first
IndicesFrom(i, positions) ==
    IF i > Len(window) THEN <<>>
    ELSE (IF i \in positions THEN <<i>> ELSE <<>>) \o IndicesFrom(i + 1, positions)

\* a human, non-command message
IsConversational(i) == classified[i] = "human"

\* a candidate of the walk: conversational and not in the exclusion set
IsCandidate(i) == IsConversational(i) /\ window[i].content \notin ignored_contents

Candidates == IndicesFrom(1, {i \in 1..Len(window) : IsCandidate(i)})

RECURSIVE TotalAfter(_, _, _)
\* the running total after the first j candidates, each adding the length
\* of its author plus the length of its content plus extra
TotalAfter(cands, j, extra) ==
    IF j = 0 THEN BaseLen + 1
    ELSE TotalAfter(cands, j - 1, extra)
         + Len(window[cands[j]].author.name) + Len(window[cands[j]].content) + extra

\* how many candidates the walk looked at: the appended ones and, if the
\* walk stopped early, the one that stopped it
Processed ==
    IF Len(context.history) < Len(Candidates) THEN Len(context.history) + 1
    ELSE Len(Candidates)

(***************************************************************************)
(* C1: with no tool results, the rendered prompt of a built context is     *)
(* never longer than history_character_limit.                              *)
(***************************************************************************)
C1_PromptWithinLimit ==
    (pc = "done" /\ context.tool_results = <<>>)
        => Len(render_prompt(context)) <= history_character_limit

(***************************************************************************)
(* C2 as stated: the running total starts at len(base) + 1 and every       *)
(* candidate outside the exclusion set adds len(author) + len(content) + 4.*)
(***************************************************************************)
C2_TotalGrowsByFour ==
    Curated => character_budget = TotalAfter(Candidates, Processed, 4)

(***************************************************************************)
(* C2 amended: the running total starts at len(base) + 1 and every         *)
(* candidate outside the exclusion set that the walk reaches adds          *)
(* len(author) + len(content) + 2, the length of "author: content";        *)
(* excluded candidates add nothing.                                        *)
(***************************************************************************)
C2_TotalGrowsBySerializedLength ==
    Curated => character_budget = TotalAfter(Candidates, Processed, 2)

\* a pass that skipped an excluded message and counted a later one
C2_Witness ==
    /\ Curated
    /\ \E i, j \in 1..Len(window) :
          /\ i < j
          /\ IsConversational(i) /\ window[i].content \in ignored_contents
          /\ IsCandidate(j)
    /\ Len(context.history) >= 1
    /\ character_budget > BaseLen + 1

(***************************************************************************)
(* The repetition guard, stated on the window.                             *)
(***************************************************************************)
\* the bot-authored messages of the window whose lowercased content holds
\* the lowercased content followed by a line break
BotLineMatches(content) ==
    Cardinality({ j \in 1..Len(window) :
                    /\ classified[j] = "bot"
                    /\ Contains(Lower(content) \o <<"\n">>, Lower(window[j].content)) })

(***************************************************************************)
(* C3: the repetition count of each distinct human content (of at least 5  *)
(* characters; shorter ones are exempt, see C4) equals the number of       *)
(* bot-authored messages that contain it followed by a line break, however *)
(* many human messages carry that content.                                 *)
(***************************************************************************)
C3_CountIsNumberOfBotMessages ==
    Curated =>
        \A content \in DOMAIN bot_message_counts :
            Len(content) >= 5 => bot_message_counts[content] = BotLineMatches(content)

(***************************************************************************)
(* C4 as stated: a human message shorter than 5 characters is never put in *)
(* the exclusion set, for every value of bot_message_limit.                *)
(***************************************************************************)
C4_ShortNeverExcluded ==
    Curated =>
        \A i \in 1..Len(window) :
            (IsConversational(i) /\ Len(window[i].content) < 5)
                => window[i].content \notin ignored_contents

(***************************************************************************)
(* C4 amended: for every bot_message_limit >= 1, a human message shorter   *)
(* than 5 characters is never put in the exclusion set, however many bot   *)
(* messages contain its content as a line.                                 *)
(***************************************************************************)
C4_ShortNeverExcludedPositiveLimit ==
    (Curated /\ bot_message_limit >= 1) =>
        \A i \in 1..Len(window) :
            (IsConversational(i) /\ Len(window[i].content) < 5)
                => window[i].content \notin ignored_contents

\* a short human message echoed by the bot at least bot_message_limit times
\* and still in the curated history
C4_Witness ==
    /\ Curated
    /\ bot_message_limit >= 1
    /\ \E k \in 1..Len(history_src) :
          /\ Len(window[history_src[k]].content) < 5
          /\ BotLineMatches(window[history_src[k]].content) >= bot_message_limit
          /\ context.history[k].content = window[history_src[k]].content

(***************************************************************************)
(* C5: a content of at least 5 characters that at least bot_message_limit  *)
(* bot-authored messages of the window contain as a line                   *)
(* (case-insensitively, followed by a line break) is the content of no     *)
(* curated history entry, whoever wrote it and however often.              *)
(***************************************************************************)
C5_RepeatedContentExcluded ==
    Curated =>
        \A i \in 1..Len(window) :
            (/\ Len(window[i].content) >= 5
             /\ BotLineMatches(window[i].content) >= bot_message_limit)
                => \A k \in 1..Len(context.history) :
                       context.history[k].content # window[i].content

\* two authors carry a content that the bot echoed exactly bot_message_limit times
C5_Witness ==
    /\ Curated
    /\ bot_message_limit >= 1
    /\ \E i, j \in 1..Len(window) :
          /\ IsConversational(i) /\ IsConversational(j)
          /\ window[i].author.id # window[j].author.id
          /\ window[i].content = window[j].content
          /\ Len(window[i].content) >= 5
          /\ BotLineMatches(window[i].content) = bot_message_limit

(***************************************************************************)
(* The walk under the character budget, stated on the window.              *)
(***************************************************************************)
\* the window positions of the curated entries
CuratedPositions == { history_src[k] : k \in 1..Len(history_src) }

\* the ContextMessage made from the message at window position i
EntryOf(i) == [author |-> window[i].author.name, content |-> window[i].content]

\* what the candidate at window position i adds to the running total
CostOf(i) == Len(window[i].author.name) + Len(window[i].content) + 2

(***************************************************************************)
(* C6: once a candidate, taken newest first, pushes the running total      *)
(* above history_character_limit, neither it nor any older candidate is in *)
(* the curated history; the curated history is exactly a newest-first      *)
(* prefix of the candidates (human, non-command, not excluded).            *)
(***************************************************************************)
C6_StopsAtFirstOverflow ==
    Curated =>
        /\ Len(context.history) <= Len(Candidates)
        /\ CuratedPositions = { Candidates[k] : k \in 1..Len(context.history) }
        /\ \A j \in 1..Len(Candidates) :
              TotalAfter(Candidates, j, 2) > history_character_limit
                  => \A older \in j..Len(Candidates) :
                         Candidates[older] \notin CuratedPositions

\* the walk stopped at a candidate although an older one would have fitted
C6_Witness ==
    /\ Curated
    /\ \E j \in 1..Len(Candidates) :
          /\ TotalAfter(Candidates, j, 2) > history_character_limit
          /\ \E older \in (j + 1)..Len(Candidates) :
                /\ TotalAfter(Candidates, j - 1, 2) + CostOf(Candidates[older])
                       <= history_character_limit
                /\ Candidates[older] \notin CuratedPositions

(***************************************************************************)
(* C7: the comparison with the budget is strict: a candidate that brings   *)
(* the running total to exactly history_character_limit is in the curated  *)
(* history, one that brings it to history_character_limit + 1 is not.      *)
(***************************************************************************)
C7_ExactFitIsKept ==
    Curated =>
        \A j \in 1..Len(Candidates) :
            /\ TotalAfter(Candidates, j, 2) = history_character_limit
                   => Candidates[j] \in CuratedPositions
            /\ TotalAfter(Candidates, j, 2) = history_character_limit + 1
                   => Candidates[j] \notin CuratedPositions

\* a candidate reached the limit exactly and was appended
C7_Witness ==
    /\ Curated
    /\ \E j \in 1..Len(Candidates) :
          /\ TotalAfter(Candidates, j, 2) = history_character_limit
          /\ Candidates[j] \in CuratedPositions
          /\ context.history[Len(context.history) + 1 - j] = EntryOf(Candidates[j])

(***************************************************************************)
(* C8: the curated history is oldest first: it is the reversal of the      *)
(* selected newest-first subsequence of the window, so two entries stand   *)
(* in the opposite order from the one in which the source yielded them.    *)
(***************************************************************************)
C8_OldestFirst ==
    Curated =>
        LET n == Len(context.history)
        IN  /\ n <= Len(Candidates)
            /\ Len(history_src) = n
            /\ \A k \in 1..n :
                  /\ history_src[k] = Candidates[n + 1 - k]
                  /\ context.history[k] = EntryOf(Candidates[n + 1 - k])
            /\ \A k1, k2 \in 1..n : k1 < k2 => history_src[k1] > history_src[k2]

\* two different entries were curated
C8_Witness ==
    /\ Curated
    /\ Len(context.history) >= 2
    /\ context.history[1] # context.history[2]
    /\ context.history[1] = EntryOf(history_src[1])
    /\ history_src[1] > history_src[2]

(***************************************************************************)
(* Who wrote a message, stated on its author and the bound identity.       *)
(***************************************************************************)
\* self-authored: the bound identity if there is one, else the bot flag
SelfAuthored(author, uid) ==
    \/ uid # None /\ author.id = uid
    \/ uid = None /\ author.bot

\* this step read one more message from the history
ReadsMessage == Len(window') = Len(window) + 1

\* the message this step read
MessageRead == window'[Len(window')]

(***************************************************************************)
(* C9: no curated history entry comes from a self-authored message, where  *)
(* a message is self-authored iff the bot identity is bound and equals the *)
(* author's id, or is unbound and the author's bot flag is set; with a     *)
(* bound identity the bot flag is ignored, so another bot's message is     *)
(* treated as a human one.                                                 *)
(***************************************************************************)
C9_NoSelfAuthoredEntry ==
    /\ [](Curated =>
             \A k \in 1..Len(history_src) :
                 /\ classified[history_src[k]] # "bot"
                 /\ ~SelfAuthored(window[history_src[k]].author, bot_user_id)
                 /\ context.history[k].author = window[history_src[k]].author.name)
    /\ [][ReadsMessage =>
             ((classified'[Len(window')] = "bot")
                 <=> SelfAuthored(MessageRead.author, bot_user_id))]_vars

\* under a bound identity, a message of another bot is in the curated history
C9_Witness ==
    /\ Curated
    /\ bot_user_id # None
    /\ \E k \in 1..Len(history_src) :
          /\ window[history_src[k]].author.bot
          /\ window[history_src[k]].author.id # bot_user_id
          /\ context.history[k].author = window[history_src[k]].author.name

(***************************************************************************)
(* C10: no curated history entry starts with the command prefix; a command *)
(* of a human is dropped when it is read, before the repetition counts,    *)
(* and adds nothing to the running total; a bot-authored message that      *)
(* starts with the prefix is still kept as bot content and counts for the  *)
(* repetition guard.                                                       *)
(***************************************************************************)
\* human, not a command, not excluded: told from the message itself
PlainCandidates ==
    IndicesFrom(1, { i \in 1..Len(window) :
                       /\ classified[i] # "bot"
                       /\ ~StartsWith(window[i].content, bot_prefix)
                       /\ window[i].content \notin ignored_contents })

C10_CommandsDropped ==
    /\ [](Curated =>
             /\ \A k \in 1..Len(context.history) :
                   ~StartsWith(context.history[k].content, bot_prefix)
             /\ \A content \in DOMAIN bot_message_counts :
                   /\ ~StartsWith(content, bot_prefix)
                   /\ Len(content) >= 5 => bot_message_counts[content] >= BotLineMatches(content)
             /\ character_budget =
                   TotalAfter(PlainCandidates,
                              IF Len(context.history) < Len(PlainCandidates)
                              THEN Len(context.history) + 1 ELSE Len(PlainCandidates),
                              2))
    /\ [][ReadsMessage =>
             /\ SelfAuthored(MessageRead.author, bot_user_id)
                   => bot_messages_content' =
                          Append(bot_messages_content, MessageRead.content)
             /\ (/\ ~SelfAuthored(MessageRead.author, bot_user_id)
                 /\ StartsWith(MessageRead.content, bot_prefix))
                   => UNCHANGED << history_messages, bot_message_counts,
                                   bot_messages_content >>]_vars

\* a human command was dropped, and the only bot message of the window,
\* which starts with the prefix, got a human content excluded
C10_Witness ==
    /\ Curated
    /\ bot_message_limit = 1
    /\ \E i \in 1..Len(window) :
          classified[i] = "command" /\ ~window[i].author.bot
    /\ \E j \in 1..Len(window) :
          /\ classified[j] = "bot"
          /\ StartsWith(window[j].content, bot_prefix)
          /\ \A other \in 1..Len(window) : classified[other] = "bot" => other = j
    /\ \E i \in 1..Len(window) :
          /\ IsConversational(i)
          /\ Len(window[i].content) >= 5
          /\ window[i].content \in ignored_contents

(***************************************************************************)
(* C11: when the running total admits the newest candidate (human, not a   *)
(* command, not excluded) but not the newest two together, the curated     *)
(* history has exactly one entry, made from the newest candidate.          *)
(***************************************************************************)
C11_OnlyNewestFits ==
    (/\ Curated
     /\ Len(Candidates) >= 2
     /\ TotalAfter(Candidates, 1, 2) <= history_character_limit
     /\ TotalAfter(Candidates, 2, 2) > history_character_limit)
        => /\ Len(context.history) = 1
           /\ context.history[1] = EntryOf(Candidates[1])
           /\ history_src = << Candidates[1] >>

\* the newest candidate fitted, the second did not, and an excluded or
\* command message stands in the window ahead of the newest candidate
C11_Witness ==
    /\ Curated
    /\ Len(Candidates) >= 2
    /\ TotalAfter(Candidates, 1, 2) <= history_character_limit
    /\ TotalAfter(Candidates, 2, 2) > history_character_limit
    /\ Candidates[1] > 1
    /\ context.history = << EntryOf(Candidates[1]) >>

(***************************************************************************)
(* C12: build never raises out of the curation of a window; when the       *)
(* window is empty, or each of its messages is bot-authored, a command, or *)
(* a content the repetition guard excludes, the history is empty and the   *)
(* pass goes on to the providers or returns its context.                   *)
(***************************************************************************)
\* nothing of the window can be curated: told from the messages themselves
AllDropped ==
    \A i \in 1..Len(window) :
        \/ classified[i] = "bot"
        \/ StartsWith(window[i].content, bot_prefix)
        \/ /\ Len(window[i].content) >= 5
           /\ BotLineMatches(window[i].content) >= bot_message_limit
        \/ bot_message_limit <= 0

C12_EmptyHistoryIsNoError ==
    /\ pc # "history_raised"
    /\ \A k \in 1..Len(history_messages) :
          history_messages[k].content \in DOMAIN bot_message_counts
    /\ (Curated /\ AllDropped) => (context.history = <<>> /\ history_src = <<>>)
    /\ (pc = "done" /\ AllDropped) =>
          context = [prompt_prefix |-> chatgpt_prompt_prefix,
                     middle_section |-> middle_section,
                     prompt_suffix |-> chatgpt_prompt_suffix,
                     history |-> <<>>,
                     tool_results |-> context.tool_results]

\* a context with an empty history was returned for a window that holds a
\* human command and a human content the repetition guard dropped
C12_Witness ==
    /\ pc = "done"
    /\ bot_message_limit >= 1
    /\ AllDropped
    /\ context.history = <<>>
    /\ \E i \in 1..Len(window) :
          classified[i] = "command" /\ ~window[i].author.bot
    /\ \E i \in 1..Len(window) :
          /\ IsConversational(i)
          /\ Len(window[i].content) >= 5
          /\ BotLineMatches(window[i].content) >= bot_message_limit

(***************************************************************************)
(* Vocabulary of the properties about tool providers.                      *)
(***************************************************************************)
RECURSIVE Flatten(_)
\* the returned sequences of the providers, one after another
Flatten(registry) ==
    IF registry = <<>> THEN <<>>
    ELSE registry[1].results \o Flatten(Tail(registry))

\* this step is the one in which build() returns its context
BuildReturns == pc # "done" /\ pc' = "done"

\* this step ends the stage in which the providers are awaited
GatherStageEnds == pc = "gather" /\ pc' # "gather"

(***************************************************************************)
(* C13: the tool results of a built context are the returned sequences of  *)
(* all registered providers, concatenated in registration order and, in    *)
(* one provider, in returned order; the registry only grows at its end, so *)
(* the constructor's providers come first and add_tool_provider calls      *)
(* follow in call order; a provider that returns nothing adds nothing.     *)
(***************************************************************************)
C13_ResultsInRegistrationOrder ==
    /\ [][BuildReturns => context'.tool_results = Flatten(tool_providers)]_vars
    /\ [][tool_providers' # tool_providers =>
             /\ Len(tool_providers') = Len(tool_providers) + 1
             /\ SubSeq(tool_providers', 1, Len(tool_providers)) = tool_providers]_vars

\* a context built from two providers with different results, with a
\* provider that returned nothing registered between or around them
C13_Witness ==
    /\ pc = "done"
    /\ Len(calls) = MaxAssemblyProviders
    /\ \E k \in 1..Len(calls) : tool_providers[k] = Docs
    /\ \E k \in 1..Len(calls) : tool_providers[k] = Search \/ tool_providers[k] = Silent
    /\ Len(context.tool_results) >= 2
    /\ context.tool_results[1] # context.tool_results[Len(context.tool_results)]

(***************************************************************************)
(* C14: the failure of one provider's gather is isolated: the stage in     *)
(* which the providers are awaited always ends with build() returning a    *)
(* context, and that context holds the results of every registered         *)
(* provider that did not fail.                                             *)
(***************************************************************************)
NotRaising(provider) == ~provider.raises

C14_FailureIsolated ==
    [][GatherStageEnds =>
          /\ pc' = "done"
          /\ context'.tool_results = Flatten(SelectSeq(tool_providers, NotRaising))]_vars

(***************************************************************************)
(* The reference rendering of a context.                                   *)
(***************************************************************************)
RECURSIVE AppendEach(_, _)
\* text, then for each item in turn the separator " \n " and the item
AppendEach(text, items) ==
    IF items = <<>> THEN text
    ELSE AppendEach(text \o <<" ", "\n", " ">> \o items[1], Tail(items))

\* "author: content" for each history entry
RefHistoryItems(ctx) ==
    [k \in 1..Len(ctx.history) |->
        ctx.history[k].author \o <<":">> \o <<" ">> \o ctx.history[k].content]

\* "[Tool:name] content" for each tool result
RefToolItems(ctx) ==
    [k \in 1..Len(ctx.tool_results) |->
        <<"[", "T", "o", "o", "l", ":">> \o ctx.tool_results[k].name
            \o <<"]", " ">> \o ctx.tool_results[k].content]

RefBase(ctx) == ctx.prompt_prefix \o ctx.middle_section \o ctx.prompt_suffix

RefRender(ctx) ==
    AppendEach(AppendEach(RefBase(ctx), RefHistoryItems(ctx)), RefToolItems(ctx))

ToolTag == <<"[", "T", "o", "o", "l", ":">>

(***************************************************************************)
(* C15: when the provider list is empty at the end of the curation, build  *)
(* returns at once with an empty tool_results, no gather() is invoked, and *)
(* the rendered prompt is the base and the history block alone, with no    *)
(* tool entry and no separator after the last history entry.               *)
(***************************************************************************)
\* this step ends _collect_history without an exception
HistoryStageEnds == pc = "history" /\ pc' \notin {"history", "history_raised"}

C15_NoProvidersNoToolBlock ==
    /\ [][(HistoryStageEnds /\ tool_providers = <<>>) =>
             /\ pc' = "done"
             /\ context'.tool_results = <<>>
             /\ calls' = <<>>
             /\ gathered' = <<>>
             /\ ~Contains(ToolTag, render_prompt(context'))
             /\ render_prompt(context') =
                    AppendEach(RefBase(context'), RefHistoryItems(context'))]_vars
    /\ []((tool_providers = <<>> /\ pc \in {"complete", "responded", "complete_raised"})
             => /\ calls = <<>>
                /\ ~Contains(ToolTag, prompt)
                /\ completions = << AppendEach(RefBase(context), RefHistoryItems(context)) >>)

\* a context with a history and no tool result, built with no provider registered
C15_Witness ==
    /\ pc = "done"
    /\ tool_providers = <<>>
    /\ calls = <<>>
    /\ Len(context.history) >= 2
    /\ context.tool_results = <<>>
    /\ render_prompt(context) = AppendEach(RefBase(context), RefHistoryItems(context))

(***************************************************************************)
(* C16: render_prompt equals the reference rendering for every context:    *)
(* base = prefix + middle + suffix, then " \n " and "author: content" for  *)
(* each history entry, then " \n " and "[Tool:name] content" for each tool *)
(* result; history before tools, and exactly base when both are empty.     *)
(***************************************************************************)
C16_RenderEqualsReference ==
    /\ render_prompt(context) = RefRender(context)
    /\ (context.history = <<>> /\ context.tool_results = <<>>)
          => render_prompt(context) = RefBase(context)
    /\ pc \in {"complete", "responded", "complete_raised"} => prompt = RefRender(context)

\* a built context with a history and two tool results
C16_Witness ==
    /\ pc = "done"
    /\ Len(context.history) >= 1
    /\ Len(context.tool_results) >= 2
    /\ context.tool_results[1] # context.tool_results[2]
    /\ Len(render_prompt(context)) > Len(RefBase(context))

(***************************************************************************)
(* What a pass returns when it runs alone, computed from the window it     *)
(* read, its middle section and the builder's settings.                    *)
(***************************************************************************)
RECURSIVE AloneHumans(_, _)
\* the human, non-command messages of window w from position i on
AloneHumans(w, i) ==
    IF i > Len(w) THEN <<>>
    ELSE (IF Classify(w[i], bot_user_id) = "human"
          THEN << [author |-> w[i].author, content |-> w[i].content, idx |-> i] >>
          ELSE <<>>) \o AloneHumans(w, i + 1)

RECURSIVE AloneBots(_, _)
\* the contents of the bot-authored messages of window w from position i on
AloneBots(w, i) ==
    IF i > Len(w) THEN <<>>
    ELSE (IF Classify(w[i], bot_user_id) = "bot" THEN << w[i].content >> ELSE <<>>)
         \o AloneBots(w, i + 1)

AloneCounts(p) ==
    LET humans == AloneHumans(p.window, 1)
    IN  CountRepetitions(humans, AloneBots(p.window, 1),
                         [c \in { humans[k].content : k \in 1..Len(humans) } |-> 0])

AloneIgnored(p) == IgnoredContents(AloneCounts(p), bot_message_limit)

AloneWalk(p) ==
    WalkHistory(AloneHumans(p.window, 1), AloneIgnored(p), history_character_limit,
                [final_history |-> <<>>, src |-> <<>>,
                 character_budget |->
                     Len(chatgpt_prompt_prefix \o p.middle_section
                             \o chatgpt_prompt_suffix) + 1])

AloneContext(p) ==
    [prompt_prefix |-> chatgpt_prompt_prefix,
     middle_section |-> p.middle_section,
     prompt_suffix |-> chatgpt_prompt_suffix,
     history |-> FinalOrder(AloneWalk(p).final_history),
     tool_results |-> Flatten(tool_providers)]

\* the locals of pass p are those of a pass that ran alone on p.window
RunsAsAlone(p) ==
    /\ p.pc = "history" =>
          /\ p.history_messages = AloneHumans(p.window, 1)
          /\ p.bot_messages_content = AloneBots(p.window, 1)
          /\ \A c \in DOMAIN p.bot_message_counts : p.bot_message_counts[c] = 0
    /\ p.pc \in {"gather", "done"} =>
          /\ p.bot_message_counts = AloneCounts(p)
          /\ p.ignored_contents = AloneIgnored(p)
          /\ p.character_budget = AloneWalk(p).character_budget
          /\ p.context.history = FinalOrder(AloneWalk(p).final_history)
    /\ p.pc = "done" => p.context = AloneContext(p)

(***************************************************************************)
(* C17: two build passes for distinct inbound messages, interleaved at     *)
(* their awaits on one builder, are independent: the repetition counts,    *)
(* exclusion set, running total and returned context of each are those of  *)
(* a pass that ran alone on its own window, and the locals of the          *)
(* suspended pass change at no step of the running one.                    *)
(***************************************************************************)
C17_PassesIndependent ==
    /\ [](RunsAsAlone(ActivePass) /\ RunsAsAlone(suspended))
    /\ [][suspended' # suspended =>
             (suspended' = ActivePass /\ ActivePass' = suspended)]_vars

\* a pass returned a history entry that the bot messages read by the other,
\* still suspended pass would have excluded
C17_Witness ==
    /\ pc = "done"
    /\ suspended.pc \in {"history", "gather"}
    /\ build_message # suspended.message
    /\ middle_section # suspended.middle_section
    /\ window # <<>>
    /\ suspended.window # <<>>
    /\ \E k \in 1..Len(context.history) :
          /\ Len(context.history[k].content) >= 5
          /\ CountBotMessages(Lower(context.history[k].content),
                              suspended.bot_messages_content) >= bot_message_limit

(***************************************************************************)
(* C18: within one build, no provider is invoked before the curation of    *)
(* the history has completed; the context is assembled only in a step at   *)
(* which every registered provider has been invoked and has returned; and  *)
(* when the read of the history fails, no gather() is called.              *)
(***************************************************************************)
C18_HistoryThenProvidersThenContext ==
    /\ [](pc \in {"history", "history_raised"} => (calls = <<>> /\ gathered = <<>>))
    /\ [](pc = "gather" => context.tool_results = <<>>)
    /\ [][(calls = <<>> /\ calls' # <<>>) =>
             /\ pc = "history"
             /\ pc' = "gather"
             /\ character_budget' = AloneWalk(ActivePass').character_budget
             /\ context'.history = FinalOrder(AloneWalk(ActivePass').final_history)]_vars
    /\ [][BuildReturns =>
             /\ Len(calls') = Len(tool_providers)
             /\ \A k \in 1..Len(tool_providers) : ~tool_providers[k].raises
             /\ pc = "gather" => next_provider = Len(tool_providers)
             /\ context'.history = FinalOrder(AloneWalk(ActivePass').final_history)]_vars

\* a context with a history and tool results, assembled after two providers
\* were invoked
C18_Witness ==
    /\ pc = "done"
    /\ Len(calls) = 2
    /\ Len(tool_providers) = 2
    /\ context.history # <<>>
    /\ context.tool_results # <<>>
    /\ gathered = context.tool_results

(***************************************************************************)
(* C19: during one build every registered provider has its gather invoked  *)
(* exactly once, with the inbound message of that build, in registration   *)
(* order, and provider k+1 is invoked only in the step in which provider k *)
(* returns.                                                                *)
(***************************************************************************)
C19_EveryProviderOnceInOrder ==
    /\ [][GatherStageEnds =>
             calls' = [k \in 1..Len(tool_providers) |->
                          [provider |-> k, message |-> build_message]]]_vars
    /\ [][(calls' # calls /\ calls' # <<>>) =>
             /\ calls' = Append(calls, [provider |-> Len(calls) + 1,
                                        message |-> build_message])
             /\ calls # <<>> =>
                   (pc = "gather" /\ next_provider = Len(calls)
                       /\ ~tool_providers[next_provider].raises)]_vars

(***************************************************************************)
(* C20: respond passes the rendered prompt to the completion backend, and  *)
(* does so once per request; when the backend fails with an                *)
(* OpenAIChatError, respond neither raises nor calls the backend again,    *)
(* and returns the degraded text, which holds the status of the error in   *)
(* decimal, in place of a completion.                                      *)
(***************************************************************************)
\* the decimal form of the statuses, written out
StatusDigits == (200 :> <<"2", "0", "0">>) @@ (429 :> <<"4", "2", "9">>)

\* respond is past its call of complete()
BackendCalled == pc \in {"complete", "responded", "complete_raised"}

C20_OneCompletionDegradedOnError ==
    /\ [](Len(completions) <= 1)
    /\ [](BackendCalled <=> Len(completions) = 1)
    /\ [](BackendCalled => (completions[1] = RefRender(context) /\ prompt = completions[1]))
    /\ [](outcome.kind = "OpenAIChatError" =>
             /\ pc = "responded"
             /\ Len(completions) = 1
             /\ Contains(StatusDigits[outcome.status], reply)
             /\ reply = SorryHead \o StatusDigits[outcome.status] \o SorryTail
             /\ reply \notin CompletionTexts)
    /\ []((pc = "responded" /\ outcome.kind = "returned") => reply = outcome.content)
    /\ [][pc = "complete" => completions' = completions]_vars

\* the backend failed with status 429 on a prompt that holds a history and
\* a tool result, and respond returned the degraded text
C20_Witness ==
    /\ pc = "responded"
    /\ outcome.kind = "OpenAIChatError"
    /\ outcome.status = 429
    /\ Len(completions) = 1
    /\ context.history # <<>>
    /\ context.tool_results # <<>>
    /\ Contains(<<"4", "2", "9">>, reply)

(***************************************************************************)
(* C25: within one curation pass every message of the window is classified *)
(* against one and the same self-identity: one identity (unbound, with the *)
(* bot flag as the rule, or bound, with id equality as the rule) explains  *)
(* the classification of all messages read so far, also when set_bot_user  *)
(* runs between two reads of the history.                                  *)
(***************************************************************************)
C25_OneIdentityPerPass ==
    \E uid \in {None, SelfId} :
        \A i \in 1..Len(window) :
            (classified[i] = "bot") <=> SelfAuthored(window[i].author, uid)

(***************************************************************************)
(* Curation of one window under different character budgets.               *)
(***************************************************************************)
\* values of history_character_limit compared with each other
Budgets == 9..20

BudgetMessages ==
    { [author |-> Al, content |-> Short],
      [author |-> Al, content |-> LongUpper],
      [author |-> Sky, content |-> LongLine] }

InitBudget ==
    /\ history_character_limit \in Budgets
    /\ bot_message_limit = 1
    /\ bot_user_id = SelfId
    /\ tool_providers = <<>>
    /\ NoPassRunning

NextBudget ==
    \/ \E inbound \in InboundMessages, middle \in MiddleSections :
          BuildStart(inbound, middle)
    \/ \E past_message \in BudgetMessages : HistoryNext(past_message)
    \/ HistoryEnd

SpecBudget == InitBudget /\ [][NextBudget]_vars

\* the history _collect_history returns for the window read and the
\* builder's configuration when the character limit is budget
HistoryUnder(budget) ==
    FinalOrder(WalkHistory(AloneHumans(window, 1), AloneIgnored(ActivePass), budget,
                           [final_history |-> <<>>, src |-> <<>>,
                            character_budget |-> BaseLen + 1]).final_history)

\* s is the end of t
IsSuffix(s, t) == Len(s) <= Len(t) /\ SubSeq(t, Len(t) - Len(s) + 1, Len(t)) = s

(***************************************************************************)
(* C26: curation is monotone in the character budget: for one window and   *)
(* configuration, the history curated under budget B is a suffix (the      *)
(* newest entries, in the same order) of the history curated under any     *)
(* budget B' >= B.                                                         *)
(***************************************************************************)
C26_MonotoneInBudget ==
    Curated =>
        /\ context.history = HistoryUnder(history_character_limit)
        /\ \A smaller, larger \in Budgets :
              smaller <= larger => IsSuffix(HistoryUnder(smaller), HistoryUnder(larger))

\* a larger budget adds older entries in front of a non-empty history
C26_Witness ==
    /\ Curated
    /\ Len(context.history) >= 1
    /\ \E larger \in Budgets :
          /\ larger > history_character_limit
          /\ Len(HistoryUnder(larger)) > Len(context.history)
          /\ HistoryUnder(larger)[1] # context.history[1]
          /\ IsSuffix(context.history, HistoryUnder(larger))

(***************************************************************************)
(* The agent: plugins, the dispatch of a message, close().                 *)
(* Strings the plugins and the image pipeline compute with.                *)
(***************************************************************************)
IsSpace(c) == c \in {" ", "\n"}

RECURSIVE LStrip(_)
\* str.lstrip()
LStrip(s) == IF s # <<>> /\ IsSpace(s[1]) THEN LStrip(Tail(s)) ELSE s

\* str.strip()
Strip(s) == Reverse(LStrip(Reverse(LStrip(s))))

\* str.endswith(suffix)
EndsWith(s, suffix) ==
    Len(suffix) <= Len(s) /\ SubSeq(s, Len(s) - Len(suffix) + 1, Len(s)) = suffix

RECURSIVE AfterFirst(_, _)
\* s.split(sep, 1)[1], for s that holds sep
AfterFirst(s, sep) ==
    IF s = <<>> THEN <<>>
    ELSE IF s[1] = sep THEN Tail(s) ELSE AfterFirst(Tail(s), sep)

RECURSIVE BeforeFirst(_, _)
\* s.split(sep, 1)[0]
BeforeFirst(s, sep) ==
    IF s = <<>> \/ s[1] = sep THEN <<>>
    ELSE << s[1] >> \o BeforeFirst(Tail(s), sep)

\* content.split("(", 1)[1].split(")", 1)[0]
MiddleOf_UpToLastParen(content) ==
    Reverse(AfterFirst(Reverse(AfterFirst(content, "(")), ")"))

MiddleOf(content) == BeforeFirst(AfterFirst(content, "("), ")")

image_extensions ==
    { <<".", "p", "n", "g">>, <<".", "j", "p", "g">>, <<".", "j", "p", "e", "g">>,
      <<".", "g", "i", "f">>, <<".", "w", "e", "b", "p">> }

(***************************************************************************)
(* Settings, channels, attachments and messages of the agent.              *)
(***************************************************************************)
chatgpt_user_specified_middle_section == <<"d">>
bot_channels == { <<"B", "a", "g">> }
bot_user == Sky

\* named: whether the channel has a `name` attribute (a DM channel has none)
DirectMessage == [named |-> FALSE, name |-> <<>>]
ListedChannel == [named |-> TRUE, name |-> <<"b", "A", "G">>]
OtherChannel == [named |-> TRUE, name |-> <<"g", "e", "n">>]
Channels == { DirectMessage, ListedChannel, OtherChannel }

Txt == [filename |-> <<"n", ".", "t", "x", "t">>, url |-> <<"u", "1">>]
Png == [filename |-> <<"a", ".", "P", "N", "G">>, url |-> <<"u", "2">>]
Jpg == [filename |-> <<"c", ".", "j", "p", "g">>, url |-> <<"u", "3">>]
NoAttachment == [filename |-> <<>>, url |-> <<>>]
AttachmentLists == { <<>>, << Txt >>, << Txt, Png, Jpg >> }

Blank == <<>>
Chatter == <<" ", "h", "i", " ">>
Plain == <<"!", "a", "a">>
Styled == <<"!", "(", "x", ")", "(", "y", ")">>
Unclosed == <<"!", "(", "x">>
Contents == { Blank, Chatter, Plain, Styled, Unclosed }

AgentMessages ==
    [author : { Al }, channel : Channels, content : Contents, attachments : AttachmentLists]
    \cup { [author |-> bot_user, channel |-> ListedChannel, content |-> Plain,
            attachments |-> <<>>] }

\* how the collaborators of one dispatch behave: responder.respond, the image
\* service's generate, and which channel.send of a handler raises (0: none)
Worlds ==
    { [respond |-> "returns", generate |-> "returns", failing_send |-> 0, status |-> 200],
      [respond |-> "raises", generate |-> "returns", failing_send |-> 0, status |-> 200],
      [respond |-> "returns", generate |-> "OpenAIImageError", failing_send |-> 0, status |-> 429],
      [respond |-> "returns", generate |-> "Exception", failing_send |-> 0, status |-> 200],
      [respond |-> "returns", generate |-> "returns", failing_send |-> 1, status |-> 200],
      [respond |-> "returns", generate |-> "returns", failing_send |-> 2, status |-> 200],
      [respond |-> "returns", generate |-> "OpenAIImageError", failing_send |-> 2, status |-> 429],
      [respond |-> "returns", generate |-> "Exception", failing_send |-> 2, status |-> 200] }

(***************************************************************************)
(* The calls a handler makes, in order.                                    *)
(***************************************************************************)
Event(call, arg, ok) == [call |-> call, arg |-> arg, ok |-> ok]

\* the nth channel.send of a handler
Send(text, nth, world) == Event("channel.send", text, world.failing_send # nth)

Declined == [handled |-> FALSE, raised |-> FALSE, events |-> <<>>]

(***************************************************************************)
(* ImagePipeline.handle_message                                            *)
(***************************************************************************)
TooShortText == << "Please provide a more detailed description for the image generation." >>
GeneratingText == << "Generating image based on your prompt... This may take a moment." >>
UnexpectedText == << "Sorry, an unexpected error occurred while generating the image." >>
SorryImage(status) ==
    << "Sorry, I encountered an error generating the image (status code " >>
        \o Str(status) \o << ")." >>
GeneratedText(image_prompt) ==
    << "Generated image based on: \"" >> \o image_prompt \o << "\"" >>

Delete == Event("status_message.delete", GeneratingText, TRUE)

ImagePipeline_handle_message(message, reference_url, world) ==
    LET image_prompt == Strip(message.content)
        notice == Send(TooShortText, 1, world)
        status_message == Send(GeneratingText, 1, world)
        generate == Event("generate", image_prompt, world.generate = "returns")
        sorry == Send(IF world.generate = "OpenAIImageError"
                      THEN SorryImage(world.status) ELSE UnexpectedText, 2, world)
        result == Send(GeneratedText(image_prompt), 2, world)
    IN  IF Len(image_prompt) < 3
            THEN [events |-> << notice >>, raised |-> ~notice.ok]
        ELSE IF ~status_message.ok
            THEN [events |-> << status_message >>, raised |-> TRUE]
        ELSE IF ~generate.ok
            THEN [events |-> << status_message, generate, sorry >>
                                \o (IF sorry.ok THEN << Delete >> ELSE <<>>),
                  raised |-> ~sorry.ok]
        ELSE [events |-> << status_message, generate, result, Delete >>,
              raised |-> ~result.ok]

(***************************************************************************)
(* ImagePlugin                                                             *)
(***************************************************************************)
\* the extension test without `.lower()`
IsImage_CaseSensitive(attachment) ==
    \E extension \in image_extensions : EndsWith(attachment.filename, extension)

\* (attachment.filename or "").lower().endswith(extensions)
IsImage(attachment) ==
    \E extension \in image_extensions : EndsWith(Lower(attachment.filename), extension)

RECURSIVE _first_image(_)
_first_image(attachments) ==
    IF attachments = <<>> THEN NoAttachment
    ELSE IF IsImage(attachments[1]) THEN attachments[1]
    ELSE _first_image(Tail(attachments))

ImagePlugin_handle_message(message, world) ==
    IF message.attachments = <<>> \/ message.content = <<>> THEN Declined
    ELSE LET attachment == _first_image(message.attachments)
         IN  IF attachment = NoAttachment THEN Declined
             ELSE LET piped == ImagePipeline_handle_message(message, attachment.url, world)
                  IN  [handled |-> ~piped.raised,
                       raised |-> piped.raised,
                       events |-> << Event("pipeline.handle_message", attachment.url,
                                           ~piped.raised) >> \o piped.events]

(***************************************************************************)
(* ChatPlugin                                                              *)
(***************************************************************************)
\* {channel.lower() for channel in settings.bot_channels}
AllowedChannels(configured) == { Lower(channel) : channel \in configured }

\* no channel is ignored
_should_ignore_channel_Never(message, allowed_channels) == FALSE

\* ChatPlugin._should_ignore_channel
_should_ignore_channel(message, allowed_channels) ==
    IF ~message.channel.named \/ allowed_channels = {} THEN FALSE
    ELSE Lower(message.channel.name) \notin allowed_channels

_contains_image(attachments) == \E i \in 1..Len(attachments) : IsImage(attachments[i])

\* FakeResponder.respond of the tests: f"response:{middle_section}"
ResponseOf(middle) == << "response:" >> \o middle

\* the call of responder.respond and the send of what it returned
Respond(middle, world) ==
    LET respond == Event("respond", middle, world.respond = "returns")
        sent == Send(ResponseOf(middle), 1, world)
    IN  IF ~respond.ok
            THEN [handled |-> FALSE, raised |-> TRUE, events |-> << respond >>]
        ELSE [handled |-> sent.ok, raised |-> ~sent.ok, events |-> << respond, sent >>]

ChatPlugin_handle_message(message, allowed_channels, world) ==
    IF _should_ignore_channel(message, allowed_channels) THEN Declined
    ELSE IF message.attachments # <<>> /\ _contains_image(message.attachments) THEN Declined
    ELSE IF ~StartsWith(message.content, bot_prefix) THEN Declined
    ELSE IF StartsWith(message.content, bot_prefix \o << "(" >>)
        THEN Respond(MiddleOf(message.content), world)
    ELSE Respond(chatgpt_user_specified_middle_section, world)

(***************************************************************************)
(* The plugins main.py and the tests register.                             *)
(***************************************************************************)
Plugin(name, priority, kind, allowed, shutdown_raises) ==
    [name |-> name, priority |-> priority, kind |-> kind, allowed |-> allowed,
     shutdown_raises |-> shutdown_raises]

ImagePlugin == Plugin("image", 100, "image", {}, FALSE)
ChatPlugin == Plugin("chat", 200, "chat", AllowedChannels(bot_channels), FALSE)
OpenChatPlugin == Plugin("open_chat", 200, "chat", AllowedChannels({}), FALSE)
NotifierPlugin == Plugin("notifier", 400, "decline", {}, FALSE)
FirstPlugin == Plugin("first", 10, "accept", {}, FALSE)
SecondPlugin == Plugin("second", 20, "decline", {}, FALSE)
FaultyPlugin == Plugin("faulty", 150, "raise", {}, TRUE)

PluginPool ==
    { ImagePlugin, ChatPlugin, OpenChatPlugin, NotifierPlugin, FirstPlugin, SecondPlugin,
      FaultyPlugin }

\* plugin.handle_message(agent, message)
handle_message(plugin, message, world) ==
    CASE plugin.kind = "image" -> ImagePlugin_handle_message(message, world)
      [] plugin.kind = "chat" -> ChatPlugin_handle_message(message, plugin.allowed, world)
      [] plugin.kind = "accept" -> [handled |-> TRUE, raised |-> FALSE, events |-> <<>>]
      [] plugin.kind = "decline" -> Declined
      [] plugin.kind = "raise" -> [handled |-> FALSE, raised |-> TRUE, events |-> <<>>]

(***************************************************************************)
(* bot/client.py: the on_message handler of create_bot                     *)
(***************************************************************************)
client_should_ignore_channel(message, allowed_channels) ==
    IF ~message.channel.named THEN FALSE
    ELSE allowed_channels # {} /\ Lower(message.channel.name) \notin allowed_channels

ProcessCommands == Event("process_commands", <<>>, TRUE)

on_message(message, allowed_channels, world) ==
    IF message.author = bot_user THEN <<>>
    ELSE IF client_should_ignore_channel(message, allowed_channels)
        THEN << ProcessCommands >>
    ELSE IF /\ message.attachments # <<>>
            /\ message.content # <<>>
            /\ _first_image(message.attachments) # NoAttachment
        THEN LET first_image == _first_image(message.attachments)
                 piped == ImagePipeline_handle_message(message, first_image.url, world)
             IN  << Event("pipeline.handle_message", first_image.url, ~piped.raised) >>
                     \o piped.events
                     \o (IF piped.raised THEN <<>> ELSE << ProcessCommands >>)
    ELSE IF StartsWith(message.content, bot_prefix)
        THEN LET chat == Respond(IF StartsWith(message.content, bot_prefix \o << "(" >>)
                                 THEN MiddleOf(message.content)
                                 ELSE chatgpt_user_specified_middle_section, world)
             IN  chat.events \o (IF chat.raised THEN <<>> ELSE << ProcessCommands >>)
    ELSE << ProcessCommands >>

(***************************************************************************)
(* BotAgent                                                                *)
(***************************************************************************)
MaxPlugins == 3
MaxCloseCalls == 2

builder_vars == << settings_vars, bot_user_id, tool_providers, pc, collect_vars, walk_vars,
                   gathered, next_provider, context, build_message, calls, respond_vars,
                   suspended >>

RECURSIVE InsertHandle(_, _)
\* where a stable sort by priority puts the handle appended last
InsertHandle(sorted, handle) ==
    IF sorted = <<>> THEN << handle >>
    ELSE IF handle.priority < sorted[1].priority THEN << handle >> \o sorted
    ELSE << sorted[1] >> \o InsertHandle(Tail(sorted), handle)

\* the list left in registration order
Sort_RegistrationOrder(handles) == handles

RECURSIVE Sort(_)
\* self._plugins.sort(): PluginHandle orders by priority alone, list.sort is stable
Sort(handles) ==
    IF handles = <<>> THEN <<>>
    ELSE InsertHandle(Sort(SubSeq(handles, 1, Len(handles) - 1)), handles[Len(handles)])

\* the calls of one kind in a sequence of events
Calls(events, call) == SelectSeq(events, LAMBDA event : event.call = call)

add_plugin(plugin) ==
    /\ plugins' = Sort(Append(plugins, plugin))
    /\ UNCHANGED << closed, apc, cursor, dispatched, log, builder_vars >>

\* _on_message up to its first await
Receive(message, world) ==
    /\ apc = "idle"
    /\ ~closed
    /\ dispatched' = [message |-> message, world |-> world]
    /\ log' = <<>>
    /\ IF message.author = bot_user
           THEN apc' = "returned" /\ cursor' = NoCursor
       ELSE IF plugins = <<>>
           THEN apc' = "commands" /\ cursor' = NoCursor
       ELSE apc' = "plugins" /\ cursor' = [index |-> 1, plugin |-> plugins[1]]
    /\ UNCHANGED << plugins, closed, builder_vars >>

\* what the awaited handle_message did, as _on_message sees it
Verdict(handling) ==
    IF handling.raised THEN "raised" ELSE IF handling.handled THEN "True" ELSE "False"

\* an exception of handle_message leaves the loop running
Offer_RaiseContinues ==
    /\ apc = "plugins"
    /\ LET handling == handle_message(cursor.plugin, dispatched.message, dispatched.world)
       IN  /\ log' = log \o << Event("handle_message",
                                     << cursor.plugin.name, Verdict(handling) >>,
                                     ~handling.raised) >>
                         \o handling.events
           /\ IF handling.handled \/ cursor.index >= Len(plugins)
                  THEN apc' = "commands" /\ cursor' = NoCursor
              ELSE /\ apc' = "plugins"
                   /\ cursor' = [index |-> cursor.index + 1,
                                 plugin |-> plugins[cursor.index + 1]]
    /\ UNCHANGED << plugins, closed, dispatched, builder_vars >>

\* the awaited handle_message ends; the loop breaks or moves to the next handle
Offer ==
    /\ apc = "plugins"
    /\ LET handling == handle_message(cursor.plugin, dispatched.message, dispatched.world)
       IN  /\ log' = log \o << Event("handle_message",
                                     << cursor.plugin.name, Verdict(handling) >>,
                                     ~handling.raised) >>
                         \o handling.events
           /\ IF handling.raised \/ handling.handled \/ cursor.index >= Len(plugins)
                  THEN apc' = "commands" /\ cursor' = NoCursor
              ELSE /\ apc' = "plugins"
                   /\ cursor' = [index |-> cursor.index + 1,
                                 plugin |-> plugins[cursor.index + 1]]
    /\ UNCHANGED << plugins, closed, dispatched, builder_vars >>

\* await self._bot.process_commands(message)
process_commands ==
    /\ apc = "commands"
    /\ log' = Append(log, ProcessCommands)
    /\ apc' = "returned"
    /\ UNCHANGED << plugins, closed, cursor, dispatched, builder_vars >>

\* _on_message is over: its task ends and its locals go
Return ==
    /\ apc = "returned"
    /\ apc' = "idle"
    /\ dispatched' = NoDispatch
    /\ log' = <<>>
    /\ UNCHANGED << plugins, closed, cursor, builder_vars >>

\* close() without the _closed test
close_NoFlag ==
    /\ apc \in {"idle", "closed"}
    /\ Len(Calls(log, "close")) < MaxCloseCalls
    /\ log' = Append(log, Event("close", <<>>, TRUE))
    /\ closed' = TRUE
    /\ IF plugins = <<>>
           THEN apc' = "bot_close" /\ cursor' = NoCursor
       ELSE /\ apc' = "shutdown"
            /\ cursor' = [index |-> Len(plugins), plugin |-> plugins[Len(plugins)]]
    /\ UNCHANGED << plugins, dispatched, builder_vars >>

\* close() up to its first await
close ==
    /\ closed \/ apc = "idle"
    /\ Len(Calls(log, "close")) < MaxCloseCalls
    /\ log' = Append(log, Event("close", <<>>, TRUE))
    /\ IF closed
           THEN UNCHANGED << closed, apc, cursor >>
       ELSE /\ closed' = TRUE
            /\ IF plugins = <<>>
                   THEN apc' = "bot_close" /\ cursor' = NoCursor
               ELSE /\ apc' = "shutdown"
                    /\ cursor' = [index |-> Len(plugins), plugin |-> plugins[Len(plugins)]]
    /\ UNCHANGED << plugins, dispatched, builder_vars >>

\* the awaited on_shutdown ends; reversed(self._plugins) moves to the next handle
on_shutdown ==
    /\ apc = "shutdown"
    /\ log' = Append(log, Event("on_shutdown", << cursor.plugin.name >>,
                                ~cursor.plugin.shutdown_raises))
    /\ IF cursor.index > 1
           THEN /\ apc' = "shutdown"
                /\ cursor' = [index |-> cursor.index - 1, plugin |-> plugins[cursor.index - 1]]
       ELSE apc' = "bot_close" /\ cursor' = NoCursor
    /\ UNCHANGED << plugins, closed, dispatched, builder_vars >>

\* await self._bot.close()
bot_close ==
    /\ apc = "bot_close"
    /\ log' = Append(log, Event("bot.close", <<>>, TRUE))
    /\ apc' = "closed"
    /\ UNCHANGED << plugins, closed, cursor, dispatched, builder_vars >>

InitAgent ==
    /\ history_character_limit = 40
    /\ bot_message_limit = 1
    /\ bot_user_id = None
    /\ tool_providers = <<>>
    /\ NoPassRunning

NextAgent ==
    \/ \E plugin \in PluginPool :
           \* main.py registers its plugins before it starts the agent
           /\ apc = "idle"
           /\ ~closed
           /\ Len(plugins) < MaxPlugins
           /\ \A i \in 1..Len(plugins) : plugins[i] # plugin
           /\ add_plugin(plugin)
    \/ /\ apc = "idle"
       /\ \E message \in AgentMessages, world \in Worlds :
              /\ Receive(message, world)
    \/ Offer
    \/ process_commands
    \/ Return
    \/ close
    \/ on_shutdown
    \/ bot_close

SpecAgent == InitAgent /\ [][NextAgent]_vars

(***************************************************************************)
(* Claims about the agent and its plugins.                                 *)
(***************************************************************************)
\* the handle_message calls of the dispatch so far, in order
Offers == Calls(log, "handle_message")

PriorityOf(name) == (CHOOSE plugin \in PluginPool : plugin.name = name).priority

(* C21: the agent offers a message to its plugins in ascending priority    *)
(* order whatever the order of registration: the list is kept sorted and   *)
(* the offers go down it from its first entry without a gap; the dispatch  *)
(* stops at the first plugin that returns True, so every offer but the     *)
(* last was declined, and no plugin of higher priority number sees a       *)
(* message an earlier plugin handled; a message nobody handled was offered *)
(* to every plugin.                                                        *)
C21_AscendingPriorityOrder ==
    /\ \A i, j \in 1..Len(plugins) : i < j => plugins[i].priority <= plugins[j].priority
    /\ Len(Offers) <= Len(plugins)
    /\ \A i \in 1..Len(Offers) : Offers[i].arg[1] = plugins[i].name
    /\ \A i \in 1..(Len(Offers) - 1) : Offers[i].arg[2] = "False"
    /\ (/\ apc \in {"commands", "returned"}
        /\ dispatched.message.author # bot_user
        /\ \A i \in 1..Len(Offers) : Offers[i].arg[2] = "False")
           => Len(Offers) = Len(plugins)

C21_Witness ==
    /\ apc = "returned"
    /\ Len(Offers) >= 2
    /\ Offers[Len(Offers)].arg[2] = "True"
    /\ Len(plugins) > Len(Offers)
    /\ plugins[Len(Offers) + 1].priority > PriorityOf(Offers[Len(Offers)].arg[1])

(* C28: when a plugin's handle_message raises during a dispatch, the       *)
(* message counts as handled: the raising offer is the last one, the       *)
(* handler goes on to process_commands instead of ending with the          *)
(* exception, and process_commands is called exactly once for the message; *)
(* a message written by the bot itself reaches no plugin and no            *)
(* process_commands call.                                                  *)
C28_RaiseCountsAsHandled ==
    /\ \A i \in 1..Len(Offers) : Offers[i].arg[2] = "raised" => i = Len(Offers)
    /\ (Offers # <<>> /\ Offers[Len(Offers)].arg[2] = "raised")
           => /\ apc \in {"commands", "returned"}
              /\ Len(Calls(log, "process_commands")) = (IF apc = "returned" THEN 1 ELSE 0)
    /\ (apc = "returned" /\ dispatched.message.author # bot_user)
           => Len(Calls(log, "process_commands")) = 1
    /\ (apc = "returned" /\ dispatched.message.author = bot_user) => log = <<>>

C28_Witness ==
    /\ apc = "returned"
    /\ Offers # <<>>
    /\ Offers[Len(Offers)].arg[2] = "raised"
    /\ Len(plugins) > Len(Offers)
    /\ Len(Calls(log, "process_commands")) = 1

\* the on_shutdown calls of close() so far, in order
Shutdowns == Calls(log, "on_shutdown")

(* C29: however many times close() is called, each registered plugin's     *)
(* on_shutdown runs at most once and the bot is closed at most once; the   *)
(* hooks run down the plugin list from its last entry, that is in reverse  *)
(* priority order; a hook that raises stops neither the hooks after it nor *)
(* the close of the bot, so a finished close() has run every hook and      *)
(* closed the bot.                                                         *)
C29_ShutdownOnce ==
    /\ \A i, j \in 1..Len(Shutdowns) : i < j => Shutdowns[i].arg # Shutdowns[j].arg
    /\ Len(Calls(log, "bot.close")) <= 1
    /\ Len(Shutdowns) <= Len(plugins)
    /\ \A i \in 1..Len(Shutdowns) : Shutdowns[i].arg[1] = plugins[Len(plugins) + 1 - i].name
    /\ apc = "closed"
           => /\ Len(Shutdowns) = Len(plugins)
              /\ Len(Calls(log, "bot.close")) = 1

C29_Witness ==
    /\ apc = "closed"
    /\ Len(Calls(log, "close")) >= 2
    /\ Len(Calls(log, "bot.close")) = 1
    /\ \E i \in 1..(Len(Shutdowns) - 1) : ~Shutdowns[i].ok

\* the attachment's filename, lower-cased, ends in an image extension
ImageNamed(attachment) ==
    \E extension \in image_extensions :
        LET name == Lower(attachment.filename)
        IN  /\ Len(name) >= Len(extension)
            /\ \A k \in 1..Len(extension) :
                   name[Len(name) - Len(extension) + k] = extension[k]

\* the positions of the attachments with an image filename
ImagePositions(message) ==
    { k \in 1..Len(message.attachments) : ImageNamed(message.attachments[k]) }

\* the first attachment, in attachment order, with an image filename
FirstImageOf(message) ==
    message.attachments[CHOOSE k \in ImagePositions(message) :
                            \A other \in ImagePositions(message) : k <= other]

\* what the offer to the named plugin ended with, "" before it ended
VerdictOf(name) ==
    IF \E i \in 1..Len(Offers) : Offers[i].arg[1] = name
    THEN Offers[CHOOSE i \in 1..Len(Offers) : Offers[i].arg[1] = name].arg[2]
    ELSE ""

(* C24: ImagePlugin.handle_message runs the image pipeline exactly once,   *)
(* with the URL of the first attachment in attachment order whose filename *)
(* has an image extension, and returns True, if and only if the message    *)
(* has non-empty content and at least one such attachment; otherwise it    *)
(* returns False and does not call the pipeline. (A pipeline call that     *)
(* raises ends handle_message with that exception in place of True.)       *)
C24_FirstImage ==
    VerdictOf("image") # ""
        => LET message == dispatched.message
               piped == Calls(log, "pipeline.handle_message")
               wanted == message.content # <<>> /\ ImagePositions(message) # {}
           IN  /\ wanted
                   => /\ Len(piped) = 1
                      /\ piped[1].arg = FirstImageOf(message).url
                      /\ VerdictOf("image") = (IF piped[1].ok THEN "True" ELSE "raised")
               /\ ~wanted
                   => /\ piped = <<>>
                      /\ VerdictOf("image") = "False"

C24_Witness ==
    /\ VerdictOf("image") = "True"
    /\ dispatched.message.attachments = << Txt, Png, Jpg >>
    /\ Calls(log, "pipeline.handle_message")[1].arg = Png.url

\* the position in the log of the offer to the named plugin
OfferAt(name) ==
    CHOOSE k \in 1..Len(log) : log[k].call = "handle_message" /\ log[k].arg[1] = name

\* the calls the named plugin's handle_message made: what the log holds
\* between its offer and the next offer or process_commands call
EventsOf(name) ==
    LET later == { k \in (OfferAt(name) + 1)..Len(log) :
                       log[k].call \in {"handle_message", "process_commands"} }
        until == IF later = {} THEN Len(log)
                 ELSE (CHOOSE k \in later : \A l \in later : k <= l) - 1
    IN  SubSeq(log, OfferAt(name) + 1, until)

\* settings.bot_channels of the chat plugin with that name
ConfiguredChannels(name) == IF name = "chat" THEN bot_channels ELSE {}

\* the channel's name is on the list, letter case aside
OnList(channel, configured) ==
    \E listed \in configured : Lower(listed) = Lower(channel.name)

ChatNames == { "chat", "open_chat" }

\* the offer to the named chat plugin was declined without a call
Ignored(name) == VerdictOf(name) = "False" /\ EventsOf(name) = <<>>

(* C22 as stated: for a message in a named channel that is not on the      *)
(* configured allow-list, ChatPlugin.handle_message returns False, sends   *)
(* nothing and never calls the responder, whatever the content.            *)
C22_UnlistedIgnored_AsStated ==
    \A name \in ChatNames :
        (/\ VerdictOf(name) # ""
         /\ dispatched.message.channel.named
         /\ ~OnList(dispatched.message.channel, ConfiguredChannels(name)))
            => Ignored(name)

(* C22: for a message in a named channel, when the configured allow-list   *)
(* is not empty and does not hold the channel's name (letter case aside),  *)
(* ChatPlugin.handle_message returns False, sends nothing and never calls  *)
(* the responder, whatever the content; an empty allow-list ignores no     *)
(* channel.                                                                *)
C22_UnlistedIgnored ==
    \A name \in ChatNames :
        (/\ VerdictOf(name) # ""
         /\ dispatched.message.channel.named
         /\ ConfiguredChannels(name) # {}
         /\ ~OnList(dispatched.message.channel, ConfiguredChannels(name)))
            => Ignored(name)

C22_Witness ==
    /\ Ignored("chat")
    /\ dispatched.message.channel = OtherChannel
    /\ dispatched.message.content = Styled
    /\ dispatched.message.attachments = <<>>

\* the content begins with the configured prefix
Prefixed(content) ==
    Len(content) >= Len(bot_prefix) /\ \A k \in 1..Len(bot_prefix) : content[k] = bot_prefix[k]

\* the content begins with the prefix followed by "("
Parenthesised(content) ==
    Prefixed(content) /\ Len(content) > Len(bot_prefix) /\ content[Len(bot_prefix) + 1] = "("

\* the positions of ")" after the first "(" of a parenthesised content
ClosingAfter(content) ==
    { k \in (Len(bot_prefix) + 2)..Len(content) : content[k] = ")" }

\* the text between the first "(" and the next ")"
Between(content) ==
    SubSeq(content, Len(bot_prefix) + 2,
           (CHOOSE k \in ClosingAfter(content) : \A l \in ClosingAfter(content) : k <= l) - 1)

\* the chat plugin with that name does not ignore the message's channel
AllowedFor(name, channel) ==
    \/ ~channel.named
    \/ ConfiguredChannels(name) = {}
    \/ OnList(channel, ConfiguredChannels(name))

(* C23: for a message in an allowed channel without image attachments      *)
(* whose content starts with the prefix, ChatPlugin calls the responder    *)
(* exactly once, sends the responder's response to the channel exactly     *)
(* once and returns True; the middle section it passes is the text between *)
(* the first "(" and the next ")" when the content starts with prefix "("  *)
(* and the configured default otherwise. For content that does not start   *)
(* with the prefix it returns False and makes no call. (When the responder *)
(* or the send raises, handle_message ends with that exception after the   *)
(* one call.)                                                              *)
C23_PrefixedAnswered ==
    \A name \in ChatNames :
        VerdictOf(name) # ""
            => LET message == dispatched.message
                   responds == Calls(EventsOf(name), "respond")
                   sends == Calls(EventsOf(name), "channel.send")
               IN  /\ (/\ AllowedFor(name, message.channel)
                       /\ ImagePositions(message) = {}
                       /\ Prefixed(message.content))
                          => /\ Len(responds) = 1
                             /\ Parenthesised(message.content)
                                 /\ ClosingAfter(message.content) # {}
                                    => responds[1].arg = Between(message.content)
                             /\ ~Parenthesised(message.content)
                                    => responds[1].arg = chatgpt_user_specified_middle_section
                             /\ responds[1].ok
                                    => /\ Len(sends) = 1
                                       /\ sends[1].arg = ResponseOf(responds[1].arg)
                             /\ ~responds[1].ok => sends = <<>>
                             /\ VerdictOf(name) =
                                    (IF responds[1].ok /\ sends[1].ok THEN "True" ELSE "raised")
                             /\ (dispatched.world.respond = "returns"
                                     /\ dispatched.world.failing_send # 1)
                                    => VerdictOf(name) = "True"
                   /\ ~Prefixed(message.content) => Ignored(name)

C23_Witness ==
    /\ VerdictOf("chat") = "True"
    /\ dispatched.message.channel = ListedChannel
    /\ dispatched.message.content = Styled
    /\ dispatched.message.attachments = << Txt >>
    /\ Calls(EventsOf("chat"), "respond")[1].arg = << "x" >>
    /\ Len(Calls(EventsOf("chat"), "channel.send")) = 1

\* the workflows a sequence of calls triggers: the image pipeline with its
\* URL, the chat responder with its middle section
Workflows(events) ==
    LET triggers == SelectSeq(events,
                        LAMBDA event : event.call \in {"pipeline.handle_message", "respond"})
    IN  [k \in 1..Len(triggers) |-> << triggers[k].call, triggers[k].arg >>]

\* the agent as main.py builds it: the image plugin and one chat plugin
MainPlugins == { << ImagePlugin, ChatPlugin >>, << ImagePlugin, OpenChatPlugin >> }

(* C27: for every message not written by the bot, the dispatch through the *)
(* image plugin (priority 100) and the chat plugin (priority 200) triggers *)
(* the same workflow as create_bot's on_message under the same settings:   *)
(* the image pipeline with the same URL, the responder with the same       *)
(* middle section, or nothing.                                             *)
C27_SameWorkflowAsOnMessage ==
    (/\ apc = "returned"
     /\ dispatched.message.author # bot_user
     /\ plugins \in MainPlugins)
        => Workflows(log) = Workflows(on_message(dispatched.message, plugins[2].allowed,
                                                 dispatched.world))

\* the two paths agree on a message that the allow-list does not exclude
C27_AgreeWhereAllowed ==
    (/\ apc = "returned"
     /\ dispatched.message.author # bot_user
     /\ plugins \in MainPlugins
     /\ AllowedFor(plugins[2].name, dispatched.message.channel))
        => Workflows(log) = Workflows(on_message(dispatched.message, plugins[2].allowed,
                                                 dispatched.world))

\* the positions of the content's characters that are not white space
Inked(content) == { k \in 1..Len(content) : content[k] \notin {" ", "\n"} }

\* the content without its leading and trailing white space
Trimmed(content) ==
    IF Inked(content) = {} THEN <<>>
    ELSE SubSeq(content,
                CHOOSE k \in Inked(content) : \A l \in Inked(content) : k <= l,
                CHOOSE k \in Inked(content) : \A l \in Inked(content) : k >= l)

\* the positions in a sequence of events of the calls of one kind
PositionsOf(events, call) == { k \in 1..Len(events) : events[k].call = call }

\* what the claim says of one run of ImagePipeline.handle_message, given the
\* calls it made; whenever: the paths on which the status message must go
PipelineContract(events, content, whenever) ==
    LET sends == Calls(events, "channel.send")
        statuses == { k \in PositionsOf(events, "channel.send") :
                          events[k].arg = GeneratingText }
        generates == PositionsOf(events, "generate")
        deletes == PositionsOf(events, "status_message.delete")
    IN  /\ Len(Trimmed(content)) < 3
            => /\ Len(sends) = 1
               /\ generates = {}
               /\ statuses = {}
               /\ deletes = {}
        /\ Len(Trimmed(content)) >= 3
            => /\ Cardinality(statuses) = 1
               /\ \A k \in statuses : \A l \in generates : k < l
               /\ Cardinality(generates) <= 1
               /\ (generates # {} /\ whenever) => Cardinality(deletes) = 1
               /\ \A k \in deletes : \A l \in generates : l < k

\* the calls of the pipeline run the image plugin started, "" when none
PipelineRun ==
    IF VerdictOf("image") # "" /\ Calls(EventsOf("image"), "pipeline.handle_message") # <<>>
    THEN Tail(EventsOf("image"))
    ELSE ""

(* C30: in ImagePipeline.handle_message a stripped prompt shorter than 3   *)
(* characters produces exactly one channel message, no call of the image   *)
(* service and no status message; otherwise exactly one status message is  *)
(* sent before generation and, on every path on which generation finished  *)
(* (success, OpenAIImageError or any other exception), that status message *)
(* is deleted exactly once before handle_message ends.                     *)
C30_StatusDeletedOnEveryPath ==
    PipelineRun # ""
        => PipelineContract(PipelineRun, dispatched.message.content, TRUE)

\* the same, the deletion asked only of runs whose every channel.send returned
C30_StatusDeletedWhenSendsReturn ==
    PipelineRun # ""
        => PipelineContract(PipelineRun, dispatched.message.content,
                            \A k \in PositionsOf(PipelineRun, "channel.send") :
                                PipelineRun[k].ok)

====
